---- MODULE Spec2Model ----
(***************************************************************************)
(* The object-storage synchronisation engine of openworkers-cli            *)
(* (src/src/s3.rs): upload_assets driving an ObjectStorage (HEAD probe,    *)
(* PUT upload) over a list of assets with for_each_concurrent(10, ..).     *)
(*                                                                         *)
(* Text is modelled as a sequence of one-character strings, bytes as       *)
(* sequences of 0..255.  An asset's content is a byte sequence; its        *)
(* content type is passed through to the PUT unchanged and influences no   *)
(* decision, so it is not carried.  The object store is a map from key to  *)
(* the headers a HEAD would report; a request takes effect on the store at *)
(* the moment its response is delivered to the orchestrator.               *)
(***************************************************************************)
EXTENDS Naturals, Sequences, FiniteSets, TLC

\* ------------------------------------------------------------------ bounds

\* longest asset list of Spec
MaxAssets == 2

\* longest asset list of SpecPool (more than the limit)
MaxPoolAssets == 11

\* longest asset list of SpecSync
MaxSyncAssets == 2

\* longest asset list of SpecMixed
MaxMixedAssets == 3

\* longest asset list of SpecClients
MaxClientAssets == 2

\* most calls of sign SpecSign follows
MaxSignCalls == 2

\* longest asset list of SpecInterrupt
MaxInterruptAssets == 2

\* for_each_concurrent(10, ..)
ConcurrencyLimit == 10

\* ----------------------------------------------------------------- helpers

\* hex crate: the digits hex::encode writes
HexLower == <<"0", "1", "2", "3", "4", "5", "6", "7",
              "8", "9", "a", "b", "c", "d", "e", "f">>

\* hex crate: upper-case digits hex::decode also reads
HexUpper == <<"0", "1", "2", "3", "4", "5", "6", "7",
              "8", "9", "A", "B", "C", "D", "E", "F">>

IsHexDigit(c) == \E k \in 1..16 : HexLower[k] = c \/ HexUpper[k] = c

HexVal(c) == (CHOOSE k \in 1..16 : HexLower[k] = c \/ HexUpper[k] = c) - 1

\* hex::encode
HexEncode(bytes) ==
    [k \in 1..(2 * Len(bytes)) |->
        IF k % 2 = 1 THEN HexLower[(bytes[(k + 1) \div 2] \div 16) + 1]
                     ELSE HexLower[(bytes[k \div 2] % 16) + 1]]

\* hex::decode succeeds: even length, every character a hex digit
HexDecodeOk(s) == Len(s) % 2 = 0 /\ \A k \in 1..Len(s) : IsHexDigit(s[k])

\* hex::decode(..).unwrap_or_default(): the empty vector on any error
HexDecodeOrDefault(s) ==
    IF HexDecodeOk(s)
    THEN [k \in 1..(Len(s) \div 2) |-> 16 * HexVal(s[2 * k - 1]) + HexVal(s[2 * k])]
    ELSE <<>>

\* base64 STANDARD alphabet
B64Alphabet ==
    <<"A", "B", "C", "D", "E", "F", "G", "H", "I", "J", "K", "L", "M",
      "N", "O", "P", "Q", "R", "S", "T", "U", "V", "W", "X", "Y", "Z",
      "a", "b", "c", "d", "e", "f", "g", "h", "i", "j", "k", "l", "m",
      "n", "o", "p", "q", "r", "s", "t", "u", "v", "w", "x", "y", "z",
      "0", "1", "2", "3", "4", "5", "6", "7", "8", "9", "+", "/">>

RECURSIVE Base64Encode(_)
\* base64::engine::general_purpose::STANDARD.encode: 3 bytes -> 4 characters,
\* a last group of 1 or 2 bytes padded with '='
Base64Encode(bytes) ==
    IF Len(bytes) = 0 THEN <<>>
    ELSE IF Len(bytes) = 1 THEN
        <<B64Alphabet[(bytes[1] \div 4) + 1],
          B64Alphabet[((bytes[1] % 4) * 16) + 1], "=", "=">>
    ELSE IF Len(bytes) = 2 THEN
        <<B64Alphabet[(bytes[1] \div 4) + 1],
          B64Alphabet[((bytes[1] % 4) * 16 + bytes[2] \div 16) + 1],
          B64Alphabet[((bytes[2] % 16) * 4) + 1], "=">>
    ELSE
        <<B64Alphabet[(bytes[1] \div 4) + 1],
          B64Alphabet[((bytes[1] % 4) * 16 + bytes[2] \div 16) + 1],
          B64Alphabet[((bytes[2] % 16) * 4 + bytes[3] \div 64) + 1],
          B64Alphabet[(bytes[3] % 64) + 1]>>
        \o Base64Encode(SubSeq(bytes, 4, Len(bytes)))

\* Sha256::digest, as a collision-free digest of two bytes on the contents used
Sha256(content) ==
    IF Len(content) = 0 THEN <<227, 176>>
    ELSE <<(content[1] * 83 + 5) % 256, (content[1] * 157 + 11) % 256>>

\* mutant: the decoded bytes are dropped, as if hex::decode always failed
hex_to_base64Defaulted(hex_str) == Base64Encode(<<>>)

\* fn hex_to_base64(hex_str)
hex_to_base64(hex_str) == Base64Encode(HexDecodeOrDefault(hex_str))

\* fn base64_encode(data)
base64_encode(data) == Base64Encode(data)

\* ------------------------------------------------------------------- values

\* Option<T>: None is the empty sequence, Some(x) the sequence <<x>>
None == <<>>

Some(x) == <<x>>

IsSome(o) == Len(o) = 1

\* one element of `assets`: (key, content, content_type, sha256_hex)
Asset(path, content, hash_hex) ==
    [path |-> path, content |-> content, hash_hex |-> hash_hex]

\* the sha256_hex the caller computes for a file: hex::encode(Sha256::digest(&content))
HashOf(content) == HexEncode(Sha256(content))

\* an answer of the HTTP transport: an error of send(), or a response
TransportError == [kind |-> "error", status |-> 0, checksum |-> None, etag |-> FALSE]

\* a request that was never sent: the `?` that returned before send(), by cause
\* ("url": Url::parse or host_str, "sign": self.sign, "nourl": urls.get(key))
LocalError(cause) == [kind |-> cause, status |-> 0, checksum |-> None, etag |-> FALSE]

HttpResponse(status, checksum, etag) ==
    [kind |-> "http", status |-> status, checksum |-> checksum, etag |-> etag]

\* reqwest StatusCode::is_success
IsSuccess(status) == status >= 200 /\ status <= 299

\* Result<Option<(Option<String>, bool)>, String>, the error text dropped
ProbeErr == [ok |-> FALSE, val |-> None]

ProbeOk(val) == [ok |-> TRUE, val |-> val]

\* mutant: the signed probe does not read the checksum header
HeadResultNoChecksum(resp) ==
    IF resp.kind # "http" THEN ProbeErr
    ELSE IF ~IsSuccess(resp.status) THEN ProbeOk(None)
    ELSE ProbeOk(Some([checksum |-> None, etag |-> resp.etag]))

\* S3Client::head: Err of every `?`, else the value built from the response
HeadResult(resp) ==
    IF resp.kind # "http" THEN ProbeErr
    ELSE IF ~IsSuccess(resp.status) THEN ProbeOk(None)
    ELSE ProbeOk(Some([checksum |-> resp.checksum, etag |-> resp.etag]))

\* S3Client::put, Result<bool, String>: "err", or Ok(status.is_success())
PutResult(resp) ==
    IF resp.kind # "http" THEN "err"
    ELSE IF IsSuccess(resp.status) THEN "ok_true" ELSE "ok_false"

\* mutant: the presigned probe does not read the checksum header
PresignedHeadResultNoChecksum(resp) ==
    IF resp.kind # "http" THEN ProbeErr
    ELSE IF ~IsSuccess(resp.status) THEN ProbeOk(None)
    ELSE ProbeOk(Some([checksum |-> None, etag |-> resp.etag]))

\* PresignedClient::head
PresignedHeadResult(resp) ==
    IF resp.kind # "http" THEN ProbeErr
    ELSE IF ~IsSuccess(resp.status) THEN ProbeOk(None)
    ELSE ProbeOk(Some([checksum |-> resp.checksum, etag |-> resp.etag]))

\* mutant: a non-success status of the PUT turned into Err (error_for_status)
PresignedPutResultErrForStatus(resp) ==
    IF resp.kind # "http" THEN "err"
    ELSE IF IsSuccess(resp.status) THEN "ok_true" ELSE "err"

\* PresignedClient::put
PresignedPutResult(resp) ==
    IF resp.kind # "http" THEN "err"
    ELSE IF IsSuccess(resp.status) THEN "ok_true" ELSE "ok_false"

\* mutant: the checksum header written as hex instead of Base64
PutChecksumHex(body) == HexEncode(Sha256(body))

\* the x-amz-checksum-sha256 header S3Client::put attaches
PutChecksum(body) == base64_encode(Sha256(body))

\* mutant: the presigned PUT sends the checksum of the empty body
PresignedPutChecksumEmpty(body) == base64_encode(Sha256(<<>>))

\* the x-amz-checksum-sha256 header PresignedClient::put attaches
PresignedPutChecksum(body) == base64_encode(Sha256(body))

\* -------------------------------------------------------------------- state

VARIABLES
    assets,      \* the `assets` slice handed to upload_assets
    remote,      \* the bucket: key -> Option<[checksum, etag]>
    flaky,       \* the keys whose requests the transport or the store may fail
    next,        \* index of the next element stream::iter will yield
    pc,          \* per asset: "queued", "head" (HEAD in flight), "put", "done"
    hash_b64,    \* per task: the hex_to_base64(hash_hex) the stream's map computed
    has_etag,    \* per task: the local has_etag
    headResp,    \* per asset: the answer its HEAD got, if any
    putResp,     \* per asset: the answer its PUT got, if any
    headCalls,   \* per asset: storage.head calls issued
    putCalls,    \* per asset: storage.put calls issued
    lines,       \* per asset: the line printed for it, "" while none
    uploaded,    \* AtomicUsize uploaded
    skipped,     \* AtomicUsize skipped
    result,      \* Option<(uploaded, skipped)>: what upload_assets returned
    run,         \* 1 for the first sync of the list, 2 for the sync run again
    firstOk,     \* run 2: whether run 1 ended with every asset uploaded or skipped
    changed,     \* run 2: index of the asset whose content changed, 0 if none
    bucket0,     \* the bucket as it was when the running call started
    client,      \* the ObjectStorage behind `storage`: "signed" or "presigned"
    urls,        \* PresignedClient.urls: the keys that have an entry
    reqFault,    \* S3Client: what stops it building a request ("none", "url", "sign")
    putHdr,      \* per asset: the x-amz-checksum-sha256 header of the PUT it sent
    interrupted, \* run 2: whether run 1 was dropped before it returned
    firstUploaded, \* run 2 after an interruption: the assets run 1 had uploaded
    signLog,     \* the calls of S3Client::sign made so far: inputs and result
    entries,     \* the presigned entries the API returned: their paths, in order
    reqLog,      \* the signed requests S3Client built so far
    cfg,         \* the Config value the alias commands work on
    cfgCall,     \* the last call of a Config method: arguments, Config before, result
    backend,     \* the Backend behind the deploy command: "mock" or "db"
    workers,     \* workers by name: Option<[current_version]>
    deployments, \* the deployment records (rows) of each worker: their versions
    dbUnique,    \* whether worker_deployments rejects a second row of one version
    calls        \* per caller of deploy_worker: position, locals, last result

vars == <<assets, remote, flaky, next, pc, hash_b64, has_etag, headResp, putResp,
          headCalls, putCalls, lines, uploaded, skipped, result, run, firstOk,
          changed, bucket0, client, urls, reqFault, putHdr, interrupted,
          firstUploaded, signLog, entries, reqLog, cfg, cfgCall, backend, workers,
          deployments, dbUnique, calls>>

\* the state of the other commands of the CLI
elsewhere == <<reqLog, cfg, cfgCall, backend, workers, deployments, dbUnique, calls>>

\* what no step of upload_assets changes: the storage client and the history
\* kept across calls
setting == <<bucket0, client, urls, reqFault, interrupted, firstUploaded, signLog,
             entries, elsewhere>>

N == Len(assets)

Tasks == 1..N

\* the keys of the bucket the model follows
Keys == 1..MaxPoolAssets

\* mutant: a finished task keeps its slot of the pool
RunningNeverReleased == Cardinality({i \in Tasks : pc[i] \in {"head", "put", "done"}})

\* number of futures in the FuturesUnordered of for_each_concurrent
Running == Cardinality({i \in Tasks : pc[i] \in {"head", "put"}})

\* mutant: the limit compared with <= lets an eleventh task in
CanAdmitOffByOne == Running <= ConcurrencyLimit

\* for_each_concurrent(10, ..) pulls the next element only below the limit
CanAdmit == Running < ConcurrencyLimit

\* AtomicUsize::fetch_add(1, Relaxed), on the single thread that polls the stream
fetch_add(counter) == counter + 1

\* mutant: every Ok(_) of put counted as uploaded
CountsAsUploadedAnyOk(r) == r # "err"

\* the match arm `Ok(true)`: the only result of put counted as uploaded
CountsAsUploaded(r) == r = "ok_true"

\* mutant: any remote checksum header skips the asset, equal or not
ChecksumMatchAnyChecksum(probe, hash) ==
    /\ probe.ok
    /\ IsSome(probe.val)
    /\ IsSome(probe.val[1].checksum)

\* mutant: a missing object or header read as the empty checksum
\* (remote_checksum.unwrap_or_default() == hash_b64)
ChecksumMatchDefaulted(probe, hash) ==
    /\ probe.ok
    /\ hash = (IF IsSome(probe.val) /\ IsSome(probe.val[1].checksum)
               THEN probe.val[1].checksum[1] ELSE <<>>)

\* lines 60-78: true when the asset is skipped; otherwise should_upload stays true
ChecksumMatch(probe, hash) ==
    /\ probe.ok
    /\ IsSome(probe.val)
    /\ IsSome(probe.val[1].checksum)
    /\ probe.val[1].checksum[1] = hash

\* line 64: has_etag = etag only inside `if let Ok(Some(..))`
EtagOf(probe) ==
    IF probe.ok /\ IsSome(probe.val) THEN probe.val[1].etag ELSE FALSE

\* the answers a HEAD of `key` may get
HeadResponses(key) ==
    { IF IsSome(remote[key])
      THEN HttpResponse(200, remote[key][1].checksum, remote[key][1].etag)
      ELSE HttpResponse(404, None, FALSE) }
    \cup (IF key \in flaky
          THEN {TransportError, HttpResponse(500, None, FALSE)}
          ELSE {})

\* the answers a PUT of `key` may get
PutResponses(key) ==
    {HttpResponse(200, None, TRUE)}
    \cup (IF key \in flaky
          THEN {TransportError, HttpResponse(403, None, FALSE)}
          ELSE {})

\* S3Client::head and put: the `?` of Url::parse, host_str and self.sign, all
\* before send(); Some(error) when the request is not sent
SignedRequestError ==
    IF reqFault = "none" THEN None ELSE Some(LocalError(reqFault))

\* PresignedClient::head and put: self.urls.get(key).ok_or_else(..)?
PresignedRequestError(key) ==
    IF key \in urls THEN None ELSE Some(LocalError("nourl"))

\* storage.head and storage.put, by the client behind `storage`
RequestError(key) ==
    IF client = "presigned" THEN PresignedRequestError(key) ELSE SignedRequestError

ClientHeadResult(resp) ==
    IF client = "presigned" THEN PresignedHeadResult(resp) ELSE HeadResult(resp)

ClientPutResult(resp) ==
    IF client = "presigned" THEN PresignedPutResult(resp) ELSE PutResult(resp)

SentChecksum(body) ==
    IF client = "presigned" THEN PresignedPutChecksum(body) ELSE PutChecksum(body)

\* mutant: every object is stored under the first key (the key left out of the URL)
StoreAfterPutOneKey(key, body, resp) ==
    IF resp.kind = "http" /\ IsSuccess(resp.status)
    THEN [remote EXCEPT ![1] = Some([checksum |-> Some(SentChecksum(body)),
                                     etag |-> TRUE])]
    ELSE remote

\* the bucket after a PUT of `body` under `key` was answered with `resp`: the
\* store keeps the checksum header the request carried
StoreAfterPut(key, body, resp) ==
    IF resp.kind = "http" /\ IsSuccess(resp.status)
    THEN [remote EXCEPT ![key] = Some([checksum |-> Some(SentChecksum(body)),
                                       etag |-> TRUE])]
    ELSE remote

\* the state of a call of upload_assets before the stream is polled
Fresh(list) ==
    /\ next = 1
    /\ pc = [i \in 1..Len(list) |-> "queued"]
    /\ hash_b64 = [i \in 1..Len(list) |-> <<>>]
    /\ has_etag = [i \in 1..Len(list) |-> FALSE]
    /\ headResp = [i \in 1..Len(list) |-> None]
    /\ putResp = [i \in 1..Len(list) |-> None]
    /\ headCalls = [i \in 1..Len(list) |-> 0]
    /\ putCalls = [i \in 1..Len(list) |-> 0]
    /\ putHdr = [i \in 1..Len(list) |-> None]
    /\ lines = [i \in 1..Len(list) |-> ""]
    /\ uploaded = 0
    /\ skipped = 0
    /\ result = None

\* -------------------------------------------------------------- operations

\* mutant: the task starts with its PUT, the probe left out
AdmitPutFirst ==
    /\ result = None
    /\ next <= N
    /\ CanAdmit
    /\ hash_b64' = [hash_b64 EXCEPT ![next] = hex_to_base64(assets[next].hash_hex)]
    /\ next' = next + 1
    /\ pc' = [pc EXCEPT ![next] = "put"]
    /\ putCalls' = [putCalls EXCEPT ![next] = @ + 1]
    /\ putHdr' = [putHdr EXCEPT ![next] = Some(SentChecksum(assets[next].content))]
    /\ UNCHANGED <<assets, remote, flaky, has_etag, uploaded, skipped, result, run,
                   firstOk, changed, headResp, headCalls, putResp, lines, setting>>

\* the stream yields the next asset and its task is polled for the first time:
\* storage.head is called and sends its HEAD. When the client cannot build the
\* request, head returns Err without awaiting, so does put, and the task ends
\* in the same poll
Admit ==
    /\ result = None
    /\ next <= N
    /\ CanAdmit
    /\ hash_b64' = [hash_b64 EXCEPT ![next] = hex_to_base64(assets[next].hash_hex)]
    /\ headCalls' = [headCalls EXCEPT ![next] = @ + 1]
    /\ next' = next + 1
    /\ LET e == RequestError(assets[next].path) IN
       IF e # None
       THEN /\ headResp' = [headResp EXCEPT ![next] = e]
            /\ putCalls' = [putCalls EXCEPT ![next] = @ + 1]
            /\ putResp' = [putResp EXCEPT ![next] = e]
            /\ lines' = [lines EXCEPT ![next] =
                   IF ClientPutResult(e[1]) = "err" THEN "error" ELSE "upload failed"]
            /\ pc' = [pc EXCEPT ![next] = "done"]
       ELSE /\ pc' = [pc EXCEPT ![next] = "head"]
            /\ UNCHANGED <<headResp, putCalls, putResp, lines>>
    /\ UNCHANGED <<assets, remote, flaky, has_etag, uploaded, skipped, result, run,
                   firstOk, changed, putHdr, setting>>

\* mutant: a probe error fails the asset at once, no PUT (`head(..).await?`-like)
HeadReturnFailFast(i) ==
    /\ pc[i] = "head"
    /\ \E resp \in HeadResponses(assets[i].path) :
         LET probe == ClientHeadResult(resp) IN
         /\ headResp' = [headResp EXCEPT ![i] = Some(resp)]
         /\ has_etag' = [has_etag EXCEPT ![i] = EtagOf(probe)]
         /\ IF ~probe.ok
            THEN /\ lines' = [lines EXCEPT ![i] = "error"]
                 /\ pc' = [pc EXCEPT ![i] = "done"]
                 /\ UNCHANGED <<putCalls, putHdr, skipped>>
            ELSE IF ChecksumMatch(probe, hash_b64[i])
            THEN /\ lines' = [lines EXCEPT ![i] = "skipped, checksum match"]
                 /\ skipped' = fetch_add(skipped)
                 /\ pc' = [pc EXCEPT ![i] = "done"]
                 /\ UNCHANGED <<putCalls, putHdr>>
            ELSE /\ pc' = [pc EXCEPT ![i] = "put"]
                 /\ putCalls' = [putCalls EXCEPT ![i] = @ + 1]
                 /\ putHdr' = [putHdr EXCEPT ![i] = Some(SentChecksum(assets[i].content))]
                 /\ UNCHANGED <<lines, skipped>>
    /\ UNCHANGED <<assets, remote, flaky, next, hash_b64, putResp, headCalls,
                   uploaded, result, run, firstOk, changed, setting>>

\* storage.head(&path).await returns; the task skips or issues its PUT
HeadReturn(i) ==
    /\ pc[i] = "head"
    /\ \E resp \in HeadResponses(assets[i].path) :
         LET probe == ClientHeadResult(resp) IN
         /\ headResp' = [headResp EXCEPT ![i] = Some(resp)]
         /\ has_etag' = [has_etag EXCEPT ![i] = EtagOf(probe)]
         /\ IF ChecksumMatch(probe, hash_b64[i])
            THEN /\ lines' = [lines EXCEPT ![i] = "skipped, checksum match"]
                 /\ skipped' = fetch_add(skipped)
                 /\ pc' = [pc EXCEPT ![i] = "done"]
                 /\ UNCHANGED <<putCalls, putHdr>>
            ELSE /\ pc' = [pc EXCEPT ![i] = "put"]
                 /\ putCalls' = [putCalls EXCEPT ![i] = @ + 1]
                 /\ putHdr' = [putHdr EXCEPT ![i] = Some(SentChecksum(assets[i].content))]
                 /\ UNCHANGED <<lines, skipped>>
    /\ UNCHANGED <<assets, remote, flaky, next, hash_b64, putResp, headCalls,
                   uploaded, result, run, firstOk, changed, setting>>

\* mutant: a PUT that did not return Ok(true) is issued again
PutReturnRetry(i) ==
    /\ pc[i] = "put"
    /\ \E resp \in PutResponses(assets[i].path) :
         LET r == ClientPutResult(resp) IN
         /\ remote' = StoreAfterPut(assets[i].path, assets[i].content, resp)
         /\ putResp' = [putResp EXCEPT ![i] = Some(resp)]
         /\ uploaded' = IF CountsAsUploaded(r) THEN fetch_add(uploaded) ELSE uploaded
         /\ IF r = "ok_true"
            THEN /\ lines' = [lines EXCEPT ![i] =
                        IF has_etag[i] THEN "checksum changed" ELSE "new"]
                 /\ pc' = [pc EXCEPT ![i] = "done"]
                 /\ UNCHANGED putCalls
            ELSE /\ putCalls' = [putCalls EXCEPT ![i] = @ + 1]
                 /\ UNCHANGED <<lines, pc>>
    /\ UNCHANGED <<assets, flaky, next, hash_b64, has_etag, headResp, headCalls,
                   skipped, result, run, firstOk, changed, putHdr, setting>>

\* mutant: a PUT that did not return Ok(true) ends the whole call at once
PutReturnAbort(i) ==
    /\ pc[i] = "put"
    /\ result = None
    /\ \E resp \in PutResponses(assets[i].path) :
         LET r == ClientPutResult(resp) IN
         /\ remote' = StoreAfterPut(assets[i].path, assets[i].content, resp)
         /\ putResp' = [putResp EXCEPT ![i] = Some(resp)]
         /\ uploaded' = IF CountsAsUploaded(r) THEN fetch_add(uploaded) ELSE uploaded
         /\ lines' = [lines EXCEPT ![i] =
                IF r = "ok_true"
                THEN (IF has_etag[i] THEN "checksum changed" ELSE "new")
                ELSE IF r = "ok_false" THEN "upload failed" ELSE "error"]
         /\ result' = IF r = "ok_true" THEN result
                      ELSE Some([uploaded |-> uploaded, skipped |-> skipped])
    /\ pc' = [pc EXCEPT ![i] = "done"]
    /\ UNCHANGED <<assets, flaky, next, hash_b64, has_etag, headResp, headCalls,
                   putCalls, skipped, run, firstOk, changed, putHdr, setting>>

\* storage.put(&path, content, &ct).await returns
PutReturn(i) ==
    /\ pc[i] = "put"
    /\ \E resp \in PutResponses(assets[i].path) :
         LET r == ClientPutResult(resp) IN
         /\ remote' = StoreAfterPut(assets[i].path, assets[i].content, resp)
         /\ putResp' = [putResp EXCEPT ![i] = Some(resp)]
         /\ uploaded' = IF CountsAsUploaded(r) THEN fetch_add(uploaded) ELSE uploaded
         /\ lines' = [lines EXCEPT ![i] =
                IF r = "ok_true"
                THEN (IF has_etag[i] THEN "checksum changed" ELSE "new")
                ELSE IF r = "ok_false" THEN "upload failed" ELSE "error"]
    /\ pc' = [pc EXCEPT ![i] = "done"]
    /\ UNCHANGED <<assets, flaky, next, hash_b64, has_etag, headResp, headCalls,
                   putCalls, skipped, result, run, firstOk, changed, putHdr, setting>>

\* mutant: the counters are read as soon as the stream is exhausted
AllDoneEarly == next > N

\* the stream is exhausted and no task is left
AllDone == next > N /\ \A i \in Tasks : pc[i] = "done"

\* for_each_concurrent completes; the counters are loaded and returned
Return ==
    /\ result = None
    /\ AllDone
    /\ result' = Some([uploaded |-> uploaded, skipped |-> skipped])
    /\ UNCHANGED <<assets, remote, flaky, next, pc, hash_b64, has_etag, headResp,
                   putResp, headCalls, putCalls, lines, uploaded, skipped, run,
                   firstOk, changed, putHdr, setting>>

Next ==
    \/ Admit
    \/ \E i \in Tasks : HeadReturn(i)
    \/ \E i \in Tasks : PutReturn(i)
    \/ Return

\* ---------------------------------------------------------- initial states

\* contents of the files of the asset root
ContentA == <<1>>

ContentB == <<2>>

\* the assets the general specification draws its lists from
Catalog ==
    << Asset(1, ContentA, HashOf(ContentA)),
       Asset(1, ContentB, HashOf(ContentB)),
       Asset(2, ContentB, HashOf(ContentB)),
       Asset(2, ContentA, <<"z", "z">>) >>

\* an object as the bucket reports it
Object(checksum, etag) == Some([checksum |-> checksum, etag |-> etag])

\* a bucket holding `o1` under key 1 and `o2` under key 2, nothing else
Bucket(o1, o2) == [k \in Keys |-> IF k = 1 THEN o1 ELSE IF k = 2 THEN o2 ELSE None]

\* the buckets the general specification starts from
Buckets ==
    { Bucket(None, None),
      Bucket(Object(Some(PutChecksum(ContentA)), TRUE), Object(None, TRUE)),
      Bucket(Object(Some(PutChecksum(ContentB)), FALSE), Object(Some(<<>>), TRUE)) }

\* the catalog's assets whose sha256_hex is the digest of their content
HashedCatalog == SelectSeq(Catalog, LAMBDA a : a.hash_hex = HashOf(a.content))

\* the asset lists of at most `max` elements of `catalog`, one per
\* order-insensitive choice (the order of a list only fixes the order of admission)
Lists(catalog, max) ==
    { [i \in 1..Len(t) |-> catalog[t[i]]] :
        t \in { u \in UNION {[1..m -> 1..Len(catalog)] : m \in 0..max} :
                  \A i \in 1..(Len(u) - 1) : u[i] <= u[i + 1] } }

\* the names an alias may have, "default" among them
AliasNames == {"default", "prod", "test"}

DEFAULT_API_URL == "https://dash.openworkers.com/api/v1"

\* AliasConfig::api and AliasConfig::db
Api(url, token, insecure) ==
    [type |-> "api", url |-> url, token |-> token, insecure |-> insecure]

Db(database_url) == [type |-> "db", database_url |-> database_url]

\* the alias configurations the commands pass
AliasConfigs == {Api(DEFAULT_API_URL, None, FALSE), Db("postgres://localhost/test")}

\* impl Default for Config; the HashMap is a function to Option<AliasConfig>
Config_default ==
    [version |-> 1,
     default |-> Some("default"),
     aliases |-> [n \in AliasNames |->
                    IF n = "default" THEN Some(Api(DEFAULT_API_URL, None, FALSE))
                    ELSE None]]

\* the names of the workers the deploy command is run for
WorkerNames == {"versioned-worker", "nonexistent"}

\* no alias command has run: the Config is the default one
ConfigAtRest == cfg = Config_default /\ cfgCall = None

\* no deploy command has run: MockBackend::new()
BackendAtRest ==
    /\ backend = "mock"
    /\ workers = [n \in WorkerNames |-> None]
    /\ deployments = [n \in WorkerNames |-> <<>>]
    /\ dbUnique = FALSE
    /\ calls = <<>>

\* no signed request was built
RequestsAtRest == reqLog = <<>>

OtherCommandsAtRest == ConfigAtRest /\ BackendAtRest /\ RequestsAtRest

\* the presigned entries a URL map stands for, one per key, in key order
EntriesOf(keys) ==
    LET RECURSIVE Build(_)
        Build(ks) == IF ks = {} THEN <<>>
                     ELSE LET k == CHOOSE x \in ks : \A y \in ks : x <= y
                          IN  <<k>> \o Build(ks \ {k})
    IN  Build(keys)

\* the first call of upload_assets of the process, on an S3Client that builds
\* its requests
FirstCall ==
    /\ run = 1
    /\ firstOk = FALSE
    /\ changed = 0
    /\ interrupted = FALSE
    /\ firstUploaded = {}
    /\ signLog = <<>>
    /\ bucket0 = remote
    /\ Fresh(assets)

SignedClient ==
    /\ client = "signed"
    /\ urls = {}
    /\ entries = <<>>
    /\ reqFault = "none"

Init ==
    /\ assets \in Lists(Catalog, MaxAssets)
    /\ remote \in Buckets
    /\ flaky = Keys
    /\ SignedClient
    /\ FirstCall
    /\ OtherCommandsAtRest

Spec == Init /\ [][Next]_vars


\* ------------------------------------------------------------ the pool

\* lists of one asset per key, shorter than, as long as and longer than the
\* limit: the first key is flaky and absent, the second absent, the other keys
\* already hold their asset
PoolAssets(n) == [i \in 1..n |-> Asset(i, ContentA, HashOf(ContentA))]

PoolBucket ==
    [k \in Keys |->
        IF k <= 2 THEN None
        ELSE Object(Some(PutChecksum(ContentA)), TRUE)]

InitPool ==
    /\ assets \in {PoolAssets(n) : n \in (ConcurrencyLimit - 1)..MaxPoolAssets}
    /\ remote = PoolBucket
    /\ flaky = {1}
    /\ SignedClient
    /\ FirstCall
    /\ OtherCommandsAtRest

SpecPool == InitPool /\ [][Next]_vars

\* ------------------------------------------------------------ two runs

\* the line upload_assets printed for an asset it uploaded or skipped
SuccessLines == {"skipped, checksum match", "new", "checksum changed"}

\* the contents a file of the asset root may be rewritten with
Contents == {ContentA, ContentB}

\* the caller collects the assets again (collect_assets recomputes each
\* sha256_hex) and calls upload_assets a second time; at most one file changed
Resync ==
    /\ run = 1
    /\ result # None
    /\ \E j \in 0..N :
         /\ changed' = j
         /\ \E c \in Contents :
              /\ j # 0 => c # assets[j].content
              /\ j = 0 => c = ContentA
              /\ assets' = IF j = 0 THEN assets
                           ELSE [assets EXCEPT ![j] = Asset(@.path, c, HashOf(c))]
    /\ firstOk' = \A i \in Tasks : lines[i] \in SuccessLines
    /\ run' = 2
    /\ next' = 1
    /\ pc' = [i \in Tasks |-> "queued"]
    /\ hash_b64' = [i \in Tasks |-> <<>>]
    /\ has_etag' = [i \in Tasks |-> FALSE]
    /\ headResp' = [i \in Tasks |-> None]
    /\ putResp' = [i \in Tasks |-> None]
    /\ headCalls' = [i \in Tasks |-> 0]
    /\ putCalls' = [i \in Tasks |-> 0]
    /\ putHdr' = [i \in Tasks |-> None]
    /\ lines' = [i \in Tasks |-> ""]
    /\ uploaded' = 0
    /\ skipped' = 0
    /\ result' = None
    /\ bucket0' = remote
    /\ UNCHANGED <<remote, flaky, client, urls, reqFault, interrupted,
                   firstUploaded, signLog, entries, elsewhere>>

NextSync == Next \/ Resync

InitSync ==
    /\ assets \in Lists(HashedCatalog, MaxSyncAssets)
    /\ remote \in Buckets
    /\ flaky = Keys
    /\ SignedClient
    /\ FirstCall
    /\ OtherCommandsAtRest

SpecSync == InitSync /\ [][NextSync]_vars


\* ------------------------------------------------------------ a mixed list

\* assets at four keys, each in a different relation to the bucket: key 1
\* holds the asset's checksum, key 2 a stale one, key 3 nothing, key 4 an
\* object without a checksum header
MixedPool ==
    << Asset(1, ContentA, HashOf(ContentA)),
       Asset(2, ContentB, HashOf(ContentB)),
       Asset(3, ContentA, HashOf(ContentA)),
       Asset(4, ContentB, HashOf(ContentB)) >>

MixedBucket ==
    [k \in Keys |->
        IF k \in {1, 2} THEN Object(Some(PutChecksum(ContentA)), TRUE)
        ELSE IF k = 4 THEN Object(None, TRUE)
        ELSE None]

\* the lists of at most `max` assets of `pool`, in the pool's order, no asset twice
SubLists(pool, max) ==
    { [i \in 1..Len(t) |-> pool[t[i]]] :
        t \in { u \in UNION {[1..m -> 1..Len(pool)] : m \in 0..max} :
                  \A i \in 1..(Len(u) - 1) : u[i] < u[i + 1] } }

InitMixed ==
    /\ assets \in SubLists(MixedPool, MaxMixedAssets)
    /\ remote = MixedBucket
    /\ flaky = Keys
    /\ SignedClient
    /\ FirstCall
    /\ OtherCommandsAtRest

SpecMixed == InitMixed /\ [][Next]_vars

\* ------------------------------------------------------------ the two clients

\* the presigned URL maps: complete for the catalog's keys, partial, empty
UrlMaps == SUBSET {1, 2}

\* what may stop S3Client building a request: nothing, an endpoint Url::parse
\* rejects (or without host), a key hmac_sha256 rejects
ReqFaults == {"none", "url", "sign"}

InitClients ==
    /\ assets \in Lists(Catalog, MaxClientAssets)
    /\ remote \in Buckets
    /\ flaky = {1}
    /\ client \in {"signed", "presigned"}
    /\ urls \in (IF client = "presigned" THEN UrlMaps ELSE {{}})
    /\ entries = EntriesOf(urls)
    /\ reqFault \in (IF client = "signed" THEN ReqFaults ELSE {"none"})
    /\ FirstCall
    /\ OtherCommandsAtRest

SpecClients == InitClients /\ [][Next]_vars

\* ------------------------------------------------------------ signing

\* the bytes of "AWS4", "s3" and "aws4_request"
AWS4 == <<65, 87, 83, 52>>

S3Service == <<115, 51>>

Aws4Request == <<97, 119, 115, 52, 95, 114, 101, 113, 117, 101, 115, 116>>

\* HMAC-SHA256 stands as a keyed 16-bit digest: every byte of the key, then
\* every byte of the data, is folded into the state in order
RECURSIVE Absorb(_, _)
Absorb(bytes, h) ==
    IF bytes = <<>> THEN h
    ELSE Absorb(Tail(bytes), (h * 31 + Head(bytes) + 7) % 65536)

\* mac.update(data); mac.finalize().into_bytes()
HmacDigest(key, data) ==
    LET h == Absorb(data, (Absorb(key, 17) * 3 + 1) % 65536)
    IN  <<h \div 256, h % 256>>

\* Result<T, String>, the error text dropped
Err == [ok |-> FALSE, val |-> <<>>]

Ok(v) == [ok |-> TRUE, val |-> v]

\* fn hmac_sha256(key, data): Err when HmacSha256::new_from_slice rejects the key
hmac_sha256(key, data) ==
    IF reqFault = "sign" THEN Err ELSE Ok(HmacDigest(key, data))

\* mutant: the region and the service are mixed in in the other order
signServiceFirst(config, date_stamp, string_to_sign) ==
    LET k_date == hmac_sha256(AWS4 \o config.secret_access_key, date_stamp) IN
    IF ~k_date.ok THEN Err ELSE
    LET k_region == hmac_sha256(k_date.val, S3Service) IN
    IF ~k_region.ok THEN Err ELSE
    LET k_service == hmac_sha256(k_region.val, config.region) IN
    IF ~k_service.ok THEN Err ELSE
    LET k_signing == hmac_sha256(k_service.val, Aws4Request) IN
    IF ~k_signing.ok THEN Err ELSE
    LET signature == hmac_sha256(k_signing.val, string_to_sign) IN
    IF ~signature.ok THEN Err ELSE Ok(HexEncode(signature.val))

\* S3Client::sign(&self, date_stamp, string_to_sign), each `?` an early return
sign(config, date_stamp, string_to_sign) ==
    LET k_date == hmac_sha256(AWS4 \o config.secret_access_key, date_stamp) IN
    IF ~k_date.ok THEN Err ELSE
    LET k_region == hmac_sha256(k_date.val, config.region) IN
    IF ~k_region.ok THEN Err ELSE
    LET k_service == hmac_sha256(k_region.val, S3Service) IN
    IF ~k_service.ok THEN Err ELSE
    LET k_signing == hmac_sha256(k_service.val, Aws4Request) IN
    IF ~k_signing.ok THEN Err ELSE
    LET signature == hmac_sha256(k_signing.val, string_to_sign) IN
    IF ~signature.ok THEN Err ELSE Ok(HexEncode(signature.val))

\* S3Config values: access key ids "A", "B"; secrets "k", "k2"; regions "us", "eu"
Configs ==
    [access_key_id : {<<65>>, <<66>>},
     secret_access_key : {<<107>>, <<107, 50>>},
     region : {<<117, 115>>, <<101, 117>>}]

\* "20240101" and "20240102"
DateStamps == {<<50, 48, 50, 52, 48, 49, 48, 49>>, <<50, 48, 50, 52, 48, 49, 48, 50>>}

\* the string_to_sign of a HEAD and of a PUT, abridged to its first byte
StringsToSign == {<<72>>, <<80>>}

\* head or put of some S3Client calls self.sign; the clock gives the date stamp
SignCall ==
    /\ Len(signLog) < MaxSignCalls
    /\ \E config \in Configs, date_stamp \in DateStamps, string_to_sign \in StringsToSign :
         signLog' = Append(signLog,
                        [config |-> config,
                         date_stamp |-> date_stamp,
                         string_to_sign |-> string_to_sign,
                         out |-> sign(config, date_stamp, string_to_sign)])
    /\ UNCHANGED <<assets, remote, flaky, next, pc, hash_b64, has_etag, headResp,
                   putResp, headCalls, putCalls, lines, uploaded, skipped, result,
                   run, firstOk, changed, bucket0, client, urls, reqFault, putHdr,
                   interrupted, firstUploaded, entries, elsewhere>>

NextSign == SignCall

InitSign ==
    /\ assets = <<>>
    /\ remote = Bucket(None, None)
    /\ flaky = {}
    /\ client = "signed"
    /\ urls = {}
    /\ entries = <<>>
    /\ reqFault \in {"none", "sign"}
    /\ FirstCall
    /\ OtherCommandsAtRest

SpecSign == InitSign /\ [][NextSign]_vars

\* ------------------------------------------------------------ interruption

\* the tasks whose PUT is on the wire
InFlightPuts == {i \in Tasks : pc[i] = "put"}

\* the bucket once the PUTs of the tasks in `landed` (no two under one key)
\* have been stored
StoreLanded(landed) ==
    [k \in Keys |->
        IF \E i \in landed : assets[i].path = k
        THEN LET i == CHOOSE i \in landed : assets[i].path = k
             IN  Object(Some(SentChecksum(assets[i].content)), TRUE)
        ELSE remote[k]]

\* the first call is dropped before it returns (the process is stopped): its
\* counters are lost, a PUT on the wire may still be stored or not, and the
\* caller later syncs the same list again
Interrupt ==
    /\ run = 1
    /\ result = None
    /\ \E landed \in SUBSET InFlightPuts :
         /\ \A i, j \in landed : assets[i].path = assets[j].path => i = j
         /\ remote' = StoreLanded(landed)
         /\ bucket0' = StoreLanded(landed)
    /\ interrupted' = TRUE
    /\ firstUploaded' = {i \in Tasks : lines[i] \in {"new", "checksum changed"}}
    /\ run' = 2
    /\ next' = 1
    /\ pc' = [i \in Tasks |-> "queued"]
    /\ hash_b64' = [i \in Tasks |-> <<>>]
    /\ has_etag' = [i \in Tasks |-> FALSE]
    /\ headResp' = [i \in Tasks |-> None]
    /\ putResp' = [i \in Tasks |-> None]
    /\ headCalls' = [i \in Tasks |-> 0]
    /\ putCalls' = [i \in Tasks |-> 0]
    /\ putHdr' = [i \in Tasks |-> None]
    /\ lines' = [i \in Tasks |-> ""]
    /\ uploaded' = 0
    /\ skipped' = 0
    /\ UNCHANGED <<assets, flaky, result, firstOk, changed, client, urls, reqFault,
                   signLog, entries, elsewhere>>

NextInterrupt == Next \/ Interrupt

InitInterrupt ==
    /\ assets \in Lists(HashedCatalog, MaxInterruptAssets)
    /\ remote \in Buckets
    /\ flaky = Keys
    /\ SignedClient
    /\ FirstCall
    /\ OtherCommandsAtRest

SpecInterrupt == InitInterrupt /\ [][NextInterrupt]_vars

\* ------------------------------------------------------------ config

\* the variables of the asset sync and of signing
sync == <<assets, remote, flaky, next, pc, hash_b64, has_etag, headResp, putResp,
          headCalls, putCalls, lines, uploaded, skipped, result, run, firstOk,
          changed, bucket0, client, urls, reqFault, putHdr, interrupted,
          firstUploaded, signLog, entries>>

\* no asset sync runs and nothing was signed
SyncAtRest ==
    /\ assets = <<>>
    /\ remote = Bucket(None, None)
    /\ flaky = {}
    /\ SignedClient
    /\ FirstCall

\* Err(ConfigError::AliasNotFound(name)) and Err(ConfigError::AliasExists(name))
ConfigErr(kind, name) == [ok |-> FALSE, val |-> <<kind, name>>]

\* Config::get_alias
get_alias(c, name) == c.aliases[name]

\* mutant: the entry is only inserted when vacant (entry(name).or_insert(config))
set_aliasOrInsert(c, name, config, force) ==
    IF ~force /\ c.aliases[name] # None
    THEN [config |-> c, ret |-> ConfigErr("AliasExists", name)]
    ELSE [config |-> [c EXCEPT !.aliases[name] =
                         IF @ = None THEN Some(config) ELSE @],
          ret |-> Ok(<<>>)]

\* Config::set_alias: the Config it leaves and the value it returns
set_alias(c, name, config, force) ==
    IF ~force /\ c.aliases[name] # None
    THEN [config |-> c, ret |-> ConfigErr("AliasExists", name)]
    ELSE [config |-> [c EXCEPT !.aliases[name] = Some(config)],
          ret |-> Ok(<<>>)]

\* mutant: the default is left alone when its alias is removed
remove_aliasKeepsDefault(c, name) ==
    IF c.aliases[name] # None
    THEN [config |-> [c EXCEPT !.aliases[name] = None],
          ret |-> Ok(c.aliases[name][1])]
    ELSE [config |-> c, ret |-> ConfigErr("AliasNotFound", name)]

\* Config::remove_alias: the default is cleared first, then the entry removed
remove_alias(c, name) ==
    LET cleared == IF c.default = Some(name) THEN [c EXCEPT !.default = None] ELSE c
    IN  IF cleared.aliases[name] # None
        THEN [config |-> [cleared EXCEPT !.aliases[name] = None],
              ret |-> Ok(cleared.aliases[name][1])]
        ELSE [config |-> cleared, ret |-> ConfigErr("AliasNotFound", name)]

\* Config::set_default
set_default(c, name) ==
    IF c.aliases[name] = None
    THEN [config |-> c, ret |-> ConfigErr("AliasNotFound", name)]
    ELSE [config |-> [c EXCEPT !.default = Some(name)], ret |-> Ok(<<>>)]

\* config.set_alias(name, config, force) is called
SetAlias ==
    /\ \E name \in AliasNames, config \in AliasConfigs, force \in BOOLEAN :
         LET r == set_alias(cfg, name, config, force) IN
         /\ cfg' = r.config
         /\ cfgCall' = Some([op |-> "set_alias", name |-> name,
                             config |-> Some(config), force |-> force,
                             before |-> cfg, ret |-> r.ret])
    /\ UNCHANGED <<sync, reqLog, backend, workers, deployments, dbUnique, calls>>

\* config.remove_alias(name) is called
RemoveAlias ==
    /\ \E name \in AliasNames :
         LET r == remove_alias(cfg, name) IN
         /\ cfg' = r.config
         /\ cfgCall' = Some([op |-> "remove_alias", name |-> name,
                             config |-> None, force |-> FALSE,
                             before |-> cfg, ret |-> r.ret])
    /\ UNCHANGED <<sync, reqLog, backend, workers, deployments, dbUnique, calls>>

\* config.set_default(name) is called
SetDefault ==
    /\ \E name \in AliasNames :
         LET r == set_default(cfg, name) IN
         /\ cfg' = r.config
         /\ cfgCall' = Some([op |-> "set_default", name |-> name,
                             config |-> None, force |-> FALSE,
                             before |-> cfg, ret |-> r.ret])
    /\ UNCHANGED <<sync, reqLog, backend, workers, deployments, dbUnique, calls>>

NextConfig == SetAlias \/ RemoveAlias \/ SetDefault

\* the Config values a config file may hold (Config::load deserializes it as is)
ConfigValues ==
    [version : {1},
     default : {None} \cup {Some(n) : n \in AliasNames},
     aliases : [AliasNames -> {None} \cup {Some(a) : a \in AliasConfigs}]]

\* a Config built by Config::default()
InitConfig ==
    /\ SyncAtRest
    /\ BackendAtRest
    /\ RequestsAtRest
    /\ ConfigAtRest

SpecConfig == InitConfig /\ [][NextConfig]_vars

\* a Config read by Config::load(): the file's content, or the default
InitConfigLoaded ==
    /\ SyncAtRest
    /\ BackendAtRest
    /\ RequestsAtRest
    /\ cfg \in ConfigValues \cup {Config_default}
    /\ cfgCall = None

SpecConfigLoaded == InitConfigLoaded /\ [][NextConfig]_vars

\* ------------------------------------------------------------ deploy

\* deploy_worker calls one caller makes
MaxDeploys == 3

\* deploy_worker calls each of two concurrent callers makes
MaxConcurrentDeploys == 2

BackendOk(v) == [ok |-> TRUE, val |-> v, err |-> ""]

\* Err(BackendError::NotFound(..)), Err(BackendError::Database(..))
BackendErr(e) == [ok |-> FALSE, val |-> 0, err |-> e]

\* SELECT MAX(version): NULL when the worker has no deployment row
MaxVersion(rows) ==
    IF rows = <<>> THEN None
    ELSE Some(CHOOSE v \in {rows[i] : i \in DOMAIN rows} :
                  \A i \in DOMAIN rows : rows[i] <= v)

\* the version of the deployment made last, 0 when there is none
LastVersion(rows) == IF rows = <<>> THEN 0 ELSE rows[Len(rows)]

\* MockBackend: next_version = deployments.len() as i32 + 1
mock_next_version(rows) == Len(rows) + 1

\* mutant: the maximum is taken over without the increment
db_next_versionNoIncrement(rows) ==
    IF MaxVersion(rows) = None THEN 0 ELSE MaxVersion(rows)[1]

\* DbBackend: next_version = current_version.unwrap_or(0) + 1
db_next_version(rows) ==
    (IF MaxVersion(rows) = None THEN 0 ELSE MaxVersion(rows)[1]) + 1

\* a caller that has not called deploy_worker yet
IdleCaller ==
    [pc |-> "idle", name |-> "", prev |-> 0, next_version |-> 0, ret |-> None,
     started |-> 0, succeeded |-> 0, faulted |-> FALSE]

\* the most calls a caller makes
DeployLimit == IF Len(calls) = 1 THEN MaxDeploys ELSE MaxConcurrentDeploys

\* caller c's call has returned r
Returned(c, r) ==
    [calls EXCEPT ![c].pc = "idle", ![c].ret = Some(r),
                  ![c].succeeded = IF r.ok THEN @ + 1 ELSE @,
                  ![c].faulted = @ \/ r.err = "Database"]

\* MockBackend::deploy_worker, the whole call under the state mutex
MockDeploy(c) ==
    /\ backend = "mock"
    /\ calls[c].pc = "idle"
    /\ calls[c].started < DeployLimit
    /\ \E name \in WorkerNames :
         LET called == [calls EXCEPT ![c].name = name, ![c].started = @ + 1,
                                     ![c].prev = LastVersion(deployments[name]),
                                     ![c].next_version =
                                         mock_next_version(deployments[name])]
             v == mock_next_version(deployments[name])
         IN  IF workers[name] = None
             THEN /\ calls' = [called EXCEPT ![c].ret =
                                   Some(BackendErr("NotFound"))]
                  /\ UNCHANGED <<workers, deployments>>
             ELSE /\ workers' = [workers EXCEPT ![name] = Some(Some(v))]
                  /\ deployments' = [deployments EXCEPT ![name] = Append(@, v)]
                  /\ calls' = [called EXCEPT ![c].ret = Some(BackendOk(v)),
                                             ![c].succeeded = @ + 1]
    /\ UNCHANGED <<sync, reqLog, cfg, cfgCall, backend, dbUnique>>

\* DbBackend::deploy_worker is called
DbDeployCall(c) ==
    /\ backend = "db"
    /\ calls[c].pc = "idle"
    /\ calls[c].started < DeployLimit
    /\ \E name \in WorkerNames :
         calls' = [calls EXCEPT ![c].pc = "worker", ![c].name = name,
                                ![c].started = @ + 1, ![c].ret = None,
                                ![c].prev = LastVersion(deployments[name]),
                                ![c].next_version = 0]
    /\ UNCHANGED <<sync, reqLog, cfg, cfgCall, backend, workers, deployments, dbUnique>>

\* SELECT id FROM workers WHERE name = $1, NotFound when there is no row
DbSelectWorker(c) ==
    /\ calls[c].pc = "worker"
    /\ calls' = IF workers[calls[c].name] = None
                THEN Returned(c, BackendErr("NotFound"))
                ELSE [calls EXCEPT ![c].pc = "max"]
    /\ UNCHANGED <<sync, reqLog, cfg, cfgCall, backend, workers, deployments, dbUnique>>

\* SELECT MAX(version) FROM worker_deployments WHERE worker_id = $1
DbSelectMax(c) ==
    /\ calls[c].pc = "max"
    /\ calls' = [calls EXCEPT ![c].pc = "insert",
                     ![c].next_version = db_next_version(deployments[calls[c].name])]
    /\ UNCHANGED <<sync, reqLog, cfg, cfgCall, backend, workers, deployments, dbUnique>>

\* INSERT INTO worker_deployments: refused when (worker_id, version) is unique
\* in the schema and the row exists
DbInsert(c) ==
    /\ calls[c].pc = "insert"
    /\ LET name == calls[c].name
           v == calls[c].next_version
       IN  IF dbUnique /\ \E i \in DOMAIN deployments[name] : deployments[name][i] = v
           THEN /\ calls' = Returned(c, BackendErr("Database"))
                /\ UNCHANGED deployments
           ELSE /\ deployments' = [deployments EXCEPT ![name] = Append(@, v)]
                /\ calls' = [calls EXCEPT ![c].pc = "update"]
    /\ UNCHANGED <<sync, reqLog, cfg, cfgCall, backend, workers, dbUnique>>

\* UPDATE workers SET current_version = $1 WHERE id = $2, then Ok(Deployment)
DbUpdate(c) ==
    /\ calls[c].pc = "update"
    /\ workers' = [workers EXCEPT ![calls[c].name] = Some(Some(calls[c].next_version))]
    /\ calls' = Returned(c, BackendOk(calls[c].next_version))
    /\ UNCHANGED <<sync, reqLog, cfg, cfgCall, backend, deployments, dbUnique>>

\* a statement fails (connection lost) and `?` returns the error
DbFail(c) ==
    /\ calls[c].pc \in {"worker", "max", "insert", "update"}
    /\ calls' = Returned(c, BackendErr("Database"))
    /\ UNCHANGED <<sync, reqLog, cfg, cfgCall, backend, workers, deployments, dbUnique>>

NextDb ==
    \E c \in DOMAIN calls :
        \/ DbDeployCall(c)
        \/ DbSelectWorker(c)
        \/ DbSelectMax(c)
        \/ DbInsert(c)
        \/ DbUpdate(c)
        \/ DbFail(c)

NextDeploy ==
    \/ NextDb
    \/ \E c \in DOMAIN calls : MockDeploy(c)

\* a newly created worker "versioned-worker" and no worker "nonexistent"
NewWorker ==
    /\ workers = [n \in WorkerNames |->
                     IF n = "versioned-worker" THEN Some(None) ELSE None]
    /\ deployments = [n \in WorkerNames |-> <<>>]

\* one caller, either backend
InitDeploy ==
    /\ SyncAtRest
    /\ ConfigAtRest
    /\ RequestsAtRest
    /\ backend \in {"mock", "db"}
    /\ dbUnique \in BOOLEAN
    /\ NewWorker
    /\ calls = <<IdleCaller>>

SpecDeploy == InitDeploy /\ [][NextDeploy]_vars

\* two callers of the database backend
InitDeployConcurrent ==
    /\ SyncAtRest
    /\ ConfigAtRest
    /\ RequestsAtRest
    /\ backend = "db"
    /\ dbUnique \in BOOLEAN
    /\ NewWorker
    /\ calls = <<IdleCaller, IdleCaller>>

SpecDeployConcurrent == InitDeployConcurrent /\ [][NextDb]_vars

\* ----------------------------------------------------------------- requests

\* head and put calls of the Signed Client whose requests are recorded
MaxRequests == 2

UpperCase ==
    <<"A", "B", "C", "D", "E", "F", "G", "H", "I", "J", "K", "L", "M", "N",
    "O", "P", "Q", "R", "S", "T", "U", "V", "W", "X", "Y", "Z">>

LowerCase ==
    <<"a", "b", "c", "d", "e", "f", "g", "h", "i", "j", "k", "l", "m", "n",
    "o", "p", "q", "r", "s", "t", "u", "v", "w", "x", "y", "z">>

\* the characters of header names and values, in ASCII order
Ascii ==
    <<"\n", "+", "-", ".", "/", "0", "1", "2", "3", "4", "5", "6", "7",
    "8", "9", ":", ";", "=", "A", "B", "C", "D", "E", "F", "G", "H", "I",
    "J", "K", "L", "M", "N", "O", "P", "Q", "R", "S", "T", "U", "V", "W",
    "X", "Y", "Z", "a", "b", "c", "d", "e", "f", "g", "h", "i", "j", "k",
    "l", "m", "n", "o", "p", "q", "r", "s", "t", "u", "v", "w", "x", "y",
    "z">>

Ord(c) == CHOOSE k \in 1..Len(Ascii) : Ascii[k] = c

\* http::HeaderName: names are case-insensitive and kept in lower case
to_lowercase(c) ==
    IF \E k \in 1..26 : UpperCase[k] = c
    THEN LowerCase[CHOOSE k \in 1..26 : UpperCase[k] = c]
    ELSE c

HeaderName(s) == [k \in 1..Len(s) |-> to_lowercase(s[k])]

\* RequestBuilder::header(name, value): one more header on the request
header(headers, name, value) ==
    Append(headers, [name |-> HeaderName(name), value |-> value])

\* the hosts of the endpoint URLs used (Url::host_str)
Hosts == {<<"s", "3">>, <<"r", "2", ".", "d", "e", "v">>}

\* now.format("%Y%m%dT%H%M%SZ") at two instants
AmzDates == {<<"2", "0", "2", "4", "0", "1", "0", "1", "T", "0", "0", "0", "0", "0", "0", "Z">>, <<"2", "0", "2", "4", "0", "1", "0", "2", "T", "1", "2", "0", "0", "0", "0", "Z">>}

\* the content types of the assets
ContentTypes == {<<"t", "e", "x", "t", "/", "h", "t", "m", "l">>, <<"i", "m", "a", "g", "e", "/", "p", "n", "g">>}

\* S3Client::head, signed_headers
head_signed_headers ==
    <<"h", "o", "s", "t", ";", "x", "-", "a", "m", "z", "-", "c", "o", "n",
    "t", "e", "n", "t", "-", "s", "h", "a", "2", "5", "6", ";", "x", "-",
    "a", "m", "z", "-", "d", "a", "t", "e">>

\* S3Client::head, canonical_headers
head_canonical_headers(host, payload_hash, amz_date) ==
    <<"h", "o", "s", "t">> \o <<":">> \o host \o <<"\n">>
    \o <<"x", "-", "a", "m", "z", "-", "c", "o", "n", "t", "e", "n", "t", "-",
       "s", "h", "a", "2", "5", "6">>
    \o <<":">> \o payload_hash \o <<"\n">>
    \o <<"x", "-", "a", "m", "z", "-", "d", "a", "t", "e">> \o <<":">> \o amz_date \o <<"\n">>

\* S3Client::head: the request as built, with the headers set on the builder
\* ahead of Authorization
head_request(host, amz_date) ==
    LET payload_hash == HexEncode(Sha256(<<>>)) IN
    [method |-> "HEAD",
     canonical_headers |-> head_canonical_headers(host, payload_hash, amz_date),
     signed_headers |-> head_signed_headers,
     headers |->
        header(header(header(<<>>,
            <<"H", "o", "s", "t">>, host),
            <<"x", "-", "a", "m", "z", "-", "c", "o", "n", "t", "e", "n", "t", "-",
       "s", "h", "a", "2", "5", "6">>,
            payload_hash),
            <<"x", "-", "a", "m", "z", "-", "d", "a", "t", "e">>, amz_date)]

\* mutant: the list starts with host, as in the HEAD request
put_signed_headersHostFirst ==
    <<"h", "o", "s", "t", ";", "c", "o", "n", "t", "e", "n", "t", "-", "t",
    "y", "p", "e", ";", "x", "-", "a", "m", "z", "-", "c", "h", "e", "c",
    "k", "s", "u", "m", "-", "s", "h", "a", "2", "5", "6", ";", "x", "-",
    "a", "m", "z", "-", "c", "o", "n", "t", "e", "n", "t", "-", "s", "h",
    "a", "2", "5", "6", ";", "x", "-", "a", "m", "z", "-", "d", "a", "t",
    "e">>

\* S3Client::put, signed_headers
put_signed_headers ==
    <<"c", "o", "n", "t", "e", "n", "t", "-", "t", "y", "p", "e", ";", "h",
    "o", "s", "t", ";", "x", "-", "a", "m", "z", "-", "c", "h", "e", "c",
    "k", "s", "u", "m", "-", "s", "h", "a", "2", "5", "6", ";", "x", "-",
    "a", "m", "z", "-", "c", "o", "n", "t", "e", "n", "t", "-", "s", "h",
    "a", "2", "5", "6", ";", "x", "-", "a", "m", "z", "-", "d", "a", "t",
    "e">>

\* S3Client::put, canonical_headers
put_canonical_headers(content_type, host, checksum_b64, payload_hash, amz_date) ==
    <<"c", "o", "n", "t", "e", "n", "t", "-", "t", "y", "p", "e">>
    \o <<":">> \o content_type \o <<"\n">>
    \o <<"h", "o", "s", "t">> \o <<":">> \o host \o <<"\n">>
    \o <<"x", "-", "a", "m", "z", "-", "c", "h", "e", "c", "k", "s", "u", "m",
       "-", "s", "h", "a", "2", "5", "6">>
    \o <<":">> \o checksum_b64 \o <<"\n">>
    \o <<"x", "-", "a", "m", "z", "-", "c", "o", "n", "t", "e", "n", "t", "-",
       "s", "h", "a", "2", "5", "6">>
    \o <<":">> \o payload_hash \o <<"\n">>
    \o <<"x", "-", "a", "m", "z", "-", "d", "a", "t", "e">> \o <<":">> \o amz_date \o <<"\n">>

\* S3Client::put: the request as built, with the headers set on the builder
\* ahead of Authorization
put_request(host, amz_date, body, content_type) ==
    LET payload_hash == HexEncode(Sha256(body))
        checksum_b64 == base64_encode(Sha256(body))
    IN
    [method |-> "PUT",
     canonical_headers |->
        put_canonical_headers(content_type, host, checksum_b64, payload_hash, amz_date),
     signed_headers |-> put_signed_headers,
     headers |->
        header(header(header(header(header(<<>>,
            <<"C", "o", "n", "t", "e", "n", "t", "-", "T", "y", "p", "e">>,
            content_type),
            <<"H", "o", "s", "t">>, host),
            <<"x", "-", "a", "m", "z", "-", "c", "h", "e", "c", "k", "s", "u", "m",
       "-", "s", "h", "a", "2", "5", "6">>,
            checksum_b64),
            <<"x", "-", "a", "m", "z", "-", "c", "o", "n", "t", "e", "n", "t", "-",
       "s", "h", "a", "2", "5", "6">>,
            payload_hash),
            <<"x", "-", "a", "m", "z", "-", "d", "a", "t", "e">>, amz_date)]

\* storage.head(key) of the Signed Client builds its request
HeadCall ==
    /\ Len(reqLog) < MaxRequests
    /\ \E host \in Hosts, amz_date \in AmzDates :
         reqLog' = Append(reqLog, head_request(host, amz_date))
    /\ UNCHANGED <<sync, cfg, cfgCall, backend, workers, deployments, dbUnique, calls>>

\* storage.put(key, body, content_type) of the Signed Client builds its request
PutCall ==
    /\ Len(reqLog) < MaxRequests
    /\ \E host \in Hosts, amz_date \in AmzDates, body \in Contents,
          content_type \in ContentTypes :
         reqLog' = Append(reqLog, put_request(host, amz_date, body, content_type))
    /\ UNCHANGED <<sync, cfg, cfgCall, backend, workers, deployments, dbUnique, calls>>

NextRequests == HeadCall \/ PutCall

InitRequests ==
    /\ SyncAtRest
    /\ ConfigAtRest
    /\ BackendAtRest
    /\ RequestsAtRest

SpecRequests == InitRequests /\ [][NextRequests]_vars

\* ---------------------------------------------------------- upload command

\* presigned entries the API returns for one upload
MaxEntries == 2

\* assets.iter().find(|(p, ..)| p == &asset_url.path): the first asset under
\* the path, None when the entry has no local asset
FindAsset(list, path) ==
    IF \E i \in DOMAIN list : list[i].path = path
    THEN Some(list[CHOOSE i \in DOMAIN list :
                       /\ list[i].path = path
                       /\ \A j \in 1..(i - 1) : list[j].path # path])
    ELSE None

\* the HEAD check of upload_assets_presigned against `bucket`: true when the
\* status is a success, the header is there and its value is the local hash_b64
PresignedSkips(bucket, path, hash) ==
    /\ bucket[path] # None
    /\ bucket[path][1].checksum # None
    /\ bucket[path][1].checksum[1] = hash

RECURSIVE PresignedLoop(_, _, _, _)
\* counters and bucket after the first k entries of `presigned` were handled,
\* every HEAD answered from the bucket and every PUT accepted
PresignedLoop(presigned, list, bucket, k) ==
    IF k = 0 THEN [bucket |-> bucket, uploaded |-> 0, skipped |-> 0]
    ELSE LET prev == PresignedLoop(presigned, list, bucket, k - 1)
             found == FindAsset(list, presigned[k])
         IN  IF found = None THEN prev
             ELSE LET hash == hex_to_base64(found[1].hash_hex) IN
                  IF PresignedSkips(prev.bucket, presigned[k], hash)
                  THEN [prev EXCEPT !.skipped = @ + 1]
                  ELSE [bucket |-> [prev.bucket EXCEPT ![presigned[k]] =
                                       Object(Some(hash), TRUE)],
                        uploaded |-> prev.uploaded + 1,
                        skipped |-> prev.skipped]

\* upload_assets_presigned(presigned, assets), run against `bucket`
upload_assets_presigned(presigned, list, bucket) ==
    PresignedLoop(presigned, list, bucket, Len(presigned))

\* the lists of at most MaxEntries entry paths
EntryLists == UNION {[1..m -> {1, 2}] : m \in 0..MaxEntries}

\* upload_assets over PresignedClient::new(urls), urls collected from the
\* entries the API returned; the store answers every request
InitPresigned ==
    /\ assets \in Lists(Catalog, MaxAssets)
    /\ remote \in Buckets
    /\ flaky = {}
    /\ client = "presigned"
    /\ entries \in EntryLists
    /\ urls = {entries[k] : k \in DOMAIN entries}
    /\ reqFault = "none"
    /\ FirstCall
    /\ OtherCommandsAtRest

SpecPresigned == InitPresigned /\ [][Next]_vars

\* -------------------------------------------------------------- scheduling

\* the executor polls the future of upload_assets until it is ready and every
\* HEAD and every PUT call returns: as long as some step of the call can be
\* taken, one is taken
Fairness == WF_vars(Next)

\* the bucket of a re-sync after the first asset was added locally
FairBucket ==
    [k \in Keys |->
        IF k = 1 THEN None
        ELSE Object(Some(PutChecksum(ContentA)), TRUE)]

\* a list one longer than the pool holds; the store answers every request
InitPoolFair ==
    /\ assets = PoolAssets(MaxPoolAssets)
    /\ remote = FairBucket
    /\ flaky = {}
    /\ SignedClient
    /\ FirstCall
    /\ OtherCommandsAtRest

SpecPoolFair == InitPoolFair /\ [][Next]_vars /\ Fairness

\* ------------------------------------------------------------ properties

\* the lines of a failed asset (eprintln of the Ok(false) and Err arms)
FailedLines == {"upload failed", "error"}

UploadedLines == {"new", "checksum changed"}

SkippedLine == "skipped, checksum match"

\* number of assets whose printed line is in `set`
Count(set) == Cardinality({i \in Tasks : lines[i] \in set})

\* the value storage.head returned to task i (its HEAD has been answered)
ProbeOf(i) == HeadResult(headResp[i][1])

\* the probe of asset i carried a checksum equal to base64(hex_decode(hash_hex))
RemoteMatches(i) ==
    /\ headResp[i] # None
    /\ headResp[i][1].kind = "http"
    /\ IsSuccess(headResp[i][1].status)
    /\ headResp[i][1].checksum # None
    /\ headResp[i][1].checksum[1] = Base64Encode(HexDecodeOrDefault(assets[i].hash_hex))

\* C1: when upload_assets has returned, every asset has exactly one outcome
\* (uploaded, skipped or failed), each counter equals the number of assets with
\* that outcome, and uploaded + skipped + failed = N.
C1_EveryAssetClassifiedOnce ==
    result # None =>
        /\ \A i \in Tasks : lines[i] \in UploadedLines \cup {SkippedLine} \cup FailedLines
        /\ result[1].uploaded = Count(UploadedLines)
        /\ result[1].skipped = Count({SkippedLine})
        /\ result[1].uploaded + result[1].skipped + Count(FailedLines) = N

\* a returned call with one asset skipped and another failed
C1_Witness ==
    /\ result # None
    /\ N = 2
    /\ \E i, j \in Tasks : lines[i] = SkippedLine /\ lines[j] \in FailedLines

\* C2: at most 10 tasks (and so at most 10 HEAD/PUT calls) are in flight at any
\* time, also when more than 10 assets are submitted.
C2_AtMostTenInFlight ==
    /\ Running <= 10
    /\ Cardinality({i \in Tasks : headCalls[i] + putCalls[i] > 0 /\ pc[i] # "done"}) <= 10

\* ten tasks in flight while an eleventh asset waits in the stream
C2_Witness == Running = 10 /\ next <= N /\ N > 10 /\ \E i \in Tasks : pc[i] = "put"

\* C3: an asset is skipped, with no PUT, exactly when its probe returned a
\* checksum equal to base64(hex_decode(hash)); in every other answered case
\* (absent, no checksum header, other checksum, probe error) one PUT is issued.
C3_SkipIffChecksumEqual ==
    \A i \in Tasks :
        headResp[i] # None =>
            /\ (lines[i] = SkippedLine) <=> RemoteMatches(i)
            /\ RemoteMatches(i) => putCalls[i] = 0 /\ pc[i] = "done"
            /\ ~RemoteMatches(i) => putCalls[i] = 1

\* one asset skipped on a match and, in the same call, a PUT issued for an
\* asset whose remote checksum differs
C3_Witness ==
    \E i, j \in Tasks :
        /\ lines[i] = SkippedLine /\ putCalls[i] = 0
        /\ headResp[j] # None /\ headResp[j][1].status = 200
        /\ headResp[j][1].checksum # None
        /\ ~RemoteMatches(j) /\ putCalls[j] = 1


\* the paths of the list are pairwise distinct
DistinctPaths == \A i, j \in Tasks : assets[i].path = assets[j].path => i = j

\* every HEAD answered so far in this run reported the bucket's content
\* (no transport error, no 5xx)
HeadsReportStore ==
    \A i \in Tasks :
        headResp[i] # None =>
            headResp[i][1].kind = "http" /\ headResp[i][1].status \in {200, 404}

\* the second run has returned after a first run in which every asset of the
\* list (each hash the digest of its content) was uploaded or skipped
SecondRunReturned ==
    /\ run = 2
    /\ result # None
    /\ firstOk
    /\ HeadsReportStore
    /\ \A i \in Tasks : assets[i].hash_hex = HashOf(assets[i].content)

\* the second run uploaded nothing and skipped everything
NothingUploadedAgain ==
    /\ result[1].uploaded = 0
    /\ result[1].skipped = N
    /\ \A i \in Tasks : putCalls[i] = 0

\* C4 as stated: after a first run that uploaded or skipped all N assets, a
\* second run over the unchanged list returns uploaded = 0, skipped = N and
\* issues no PUT.
C4_Original ==
    SecondRunReturned /\ changed = 0 => NothingUploadedAgain

\* C4 amended: the same, for a list whose paths are pairwise distinct.
C4_IdempotentSync ==
    SecondRunReturned /\ changed = 0 /\ DistinctPaths => NothingUploadedAgain

\* a second run over two unchanged assets with distinct paths has returned
C4_Witness ==
    /\ SecondRunReturned /\ changed = 0 /\ DistinctPaths
    /\ N = 2
    /\ result[1].skipped = 2

\* the second run re-uploaded exactly the changed asset
OnlyChangedUploaded ==
    /\ putCalls[changed] = 1
    /\ \A i \in Tasks \ {changed} : putCalls[i] = 0 /\ lines[i] = SkippedLine
    /\ PutResult(putResp[changed][1]) = "ok_true" =>
          result[1].uploaded = 1 /\ result[1].skipped = N - 1

\* C5 as stated: after a fully successful sync, if exactly one asset's content
\* changes, the second run issues a PUT for exactly that asset and skips the
\* other N-1; uploaded = 1 and skipped = N-1 when that PUT succeeds.
C5_Original ==
    SecondRunReturned /\ changed # 0 => OnlyChangedUploaded

\* C5 amended: the same, for a list whose paths are pairwise distinct.
C5_ChangeDetection ==
    SecondRunReturned /\ changed # 0 /\ DistinctPaths => OnlyChangedUploaded

\* a second run over two assets with distinct paths, one of them changed and
\* uploaded again, the other skipped
C5_Witness ==
    /\ SecondRunReturned /\ changed # 0 /\ DistinctPaths
    /\ N = 2
    /\ result[1].uploaded = 1
    /\ result[1].skipped = 1


\* the PUT of asset i was answered and put returned Ok(false) or Err
PutFailed(i) == putResp[i] # None /\ PutResult(putResp[i][1]) # "ok_true"

\* the PUT of asset i was answered and put returned Ok(true)
PutSucceeded(i) == putResp[i] # None /\ PutResult(putResp[i][1]) = "ok_true"

ProbeFailed(i) == headResp[i] # None /\ ~ProbeOf(i).ok

\* C7: an asset whose probe returned Err gets its PUT: it is never skipped,
\* never failed without a PUT answer, and the call still returns only after
\* every asset was handled.
C7_ProbeErrorFallsThrough ==
    /\ \A i \in Tasks :
          ProbeFailed(i) =>
              /\ putCalls[i] = 1
              /\ pc[i] \in {"put", "done"}
              /\ lines[i] # SkippedLine
              /\ lines[i] \in FailedLines => PutFailed(i)
              /\ pc[i] = "done" => putResp[i] # None
    /\ (result # None /\ \E i \in Tasks : ProbeFailed(i)) =>
          \A j \in Tasks : headCalls[j] = 1 /\ pc[j] = "done"

\* a probe error followed by a successful upload of the same asset, in a call
\* that has returned
C7_Witness ==
    /\ result # None
    /\ \E i \in Tasks : ProbeFailed(i) /\ PutSucceeded(i) /\ lines[i] = "new"

\* the key of asset i held no object when its HEAD was answered (404)
KeyAbsentAtProbe(i) ==
    /\ headResp[i] # None
    /\ headResp[i][1].kind = "http"
    /\ headResp[i][1].status = 404

\* C8: for a key that holds no object the probe is Ok(None) and a PUT is
\* issued whatever the asset's hash (empty and malformed included); the asset is
\* counted as uploaded when the PUT succeeds.
C8_AbsentAlwaysUploaded ==
    \A i \in Tasks :
        /\ (pc[i] = "head" /\ remote[assets[i].path] = None) =>
              \A resp \in HeadResponses(assets[i].path) :
                  resp.kind = "http" => HeadResult(resp) = ProbeOk(None)
        /\ KeyAbsentAtProbe(i) =>
              /\ ProbeOf(i) = ProbeOk(None)
              /\ putCalls[i] = 1
              /\ lines[i] # SkippedLine
              /\ PutSucceeded(i) => lines[i] = "new" /\ uploaded >= 1

\* an asset with a malformed hash, its key absent, uploaded
C8_Witness ==
    \E i \in Tasks :
        /\ ~HexDecodeOk(assets[i].hash_hex)
        /\ KeyAbsentAtProbe(i)
        /\ PutSucceeded(i)
        /\ result # None

\* C9: within one call at most one probe and at most one PUT are issued per
\* asset, failed probes and failed PUTs included.
C9_NoRetry ==
    \A i \in Tasks :
        /\ headCalls[i] <= 1
        /\ putCalls[i] <= 1
        /\ pc[i] = "done" => headCalls[i] = 1

\* an asset whose probe failed and whose PUT failed, in a call that returned
C9_Witness ==
    /\ result # None
    /\ \E i \in Tasks : ProbeFailed(i) /\ PutFailed(i) /\ putCalls[i] = 1

\* C10: the pair returned equals (number of PUTs that returned Ok(true), number
\* of assets skipped), and it is read only when every task has finished.
C10_CountersExact ==
    result # None =>
        /\ \A i \in Tasks : pc[i] = "done"
        /\ result[1].uploaded = Cardinality({i \in Tasks : PutSucceeded(i)})
        /\ result[1].skipped = Cardinality({i \in Tasks : lines[i] = SkippedLine})
        /\ result[1].uploaded = uploaded /\ result[1].skipped = skipped

\* a returned call of two concurrent tasks, the first uploaded, the other skipped
C10_Witness ==
    /\ result # None
    /\ N = 2
    /\ result[1].uploaded = 1
    /\ result[1].skipped = 1
    /\ lines[1] \in UploadedLines


\* when the call started, the object under the asset's key carried a checksum
\* equal to the asset's hash
StoreMatched(i) ==
    /\ bucket0[assets[i].path] # None
    /\ bucket0[assets[i].path][1].checksum # None
    /\ bucket0[assets[i].path][1].checksum[1]
         = Base64Encode(HexDecodeOrDefault(assets[i].hash_hex))

\* every PUT answered so far succeeded
AllPutsSucceeded ==
    \A i \in Tasks :
        putResp[i] # None =>
            putResp[i][1].kind = "http" /\ IsSuccess(putResp[i][1].status)

\* skipped counts the assets the store matched, uploaded all the others
CountsFollowStore ==
    /\ result[1].skipped = Cardinality({i \in Tasks : StoreMatched(i)})
    /\ result[1].uploaded = Cardinality({i \in Tasks : ~StoreMatched(i)})
    /\ \A i \in Tasks : lines[i] = SkippedLine <=> StoreMatched(i)

\* C11 as stated: for a list with distinct paths in which every PUT succeeds,
\* skipped is the number of assets whose remote object carries a checksum equal
\* to the asset's hash and uploaded the number of all remaining assets.
C11_Original ==
    result # None /\ DistinctPaths /\ AllPutsSucceeded => CountsFollowStore

\* C11 amended: the same, when moreover every HEAD was answered by the store
\* (no transport error, no 5xx).
C11_CountsByChecksum ==
    result # None /\ DistinctPaths /\ AllPutsSucceeded /\ HeadsReportStore
        => CountsFollowStore

\* a.txt matching, b.txt stale, c.txt absent: skipped = 1, uploaded = 2
C11_Witness ==
    /\ result # None /\ DistinctPaths /\ AllPutsSucceeded /\ HeadsReportStore
    /\ N = 3
    /\ \A i \in Tasks : assets[i].path = i
    /\ result[1].skipped = 1
    /\ result[1].uploaded = 2
    /\ lines[2] = "checksum changed"
    /\ lines[3] = "new"

\* the presigned URL map has no entry for the key of some asset of the list
MissingUrl == client = "presigned" /\ \E i \in Tasks : assets[i].path \notin urls

\* a HEAD or a PUT of asset i is or was on the wire
NetworkUsed(i) ==
    \/ pc[i] \in {"head", "put"}
    \/ headResp[i] # None /\ headResp[i][1].kind \in {"http", "error"}

\* C12: a presigned URL map with no entry for a requested asset key is fatal to
\* the whole call and raised before any network activity: no HEAD or PUT is
\* issued for any asset of the call, and the call returns no counts.
C12_ConfigErrorFatal ==
    MissingUrl => result = None /\ \A i \in Tasks : ~NetworkUsed(i)

\* self.sign returned Err while the HEAD of asset i was built
SignErrorAt(i) == headResp[i] # None /\ headResp[i][1].kind = "sign"

ClientProbeOf(i) == ClientHeadResult(headResp[i][1])

\* C14: probe returns Ok(None) for every non-success status, Ok(Some((checksum,
\* hasETag))) for every success status, and Err only when the transport fails:
\* URL parsing, signing and key lookup never produce Err.
C14_ProbeErrOnlyTransport ==
    \A i \in Tasks :
        headResp[i] # None =>
            LET resp == headResp[i][1] IN
            /\ resp.kind = "http" /\ ~IsSuccess(resp.status)
                 => ClientProbeOf(i) = ProbeOk(None)
            /\ resp.kind = "http" /\ IsSuccess(resp.status)
                 => ClientProbeOf(i)
                      = ProbeOk(Some([checksum |-> resp.checksum, etag |-> resp.etag]))
            /\ ClientProbeOf(i) = ProbeErr => resp.kind = "error"

\* the PUT of asset i was sent and got an HTTP response
PutAnswered(i) == putResp[i] # None /\ putResp[i][1].kind = "http"

\* C15: upload returns Ok(true) exactly when the response to the PUT has a
\* success status; every non-success status yields Ok(false), never Err (the
\* asset is counted and printed as uploaded, resp. printed as "upload failed").
C15_PutOkIffSuccess ==
    \A i \in Tasks :
        PutAnswered(i) =>
            /\ lines[i] \in UploadedLines <=> IsSuccess(putResp[i][1].status)
            /\ ~IsSuccess(putResp[i][1].status) => lines[i] = "upload failed"

\* with the presigned client, one PUT answered 403 and one answered 200
C15_Witness ==
    /\ client = "presigned"
    /\ N = 2
    /\ PutAnswered(1) /\ putResp[1][1].status = 403 /\ lines[1] = "upload failed"
    /\ PutAnswered(2) /\ putResp[2][1].status = 200 /\ lines[2] \in UploadedLines
    /\ uploaded = 1

\* the answer to the HEAD, resp. the PUT, of asset i came from the transport
HeadOnWire(i) == headResp[i] # None /\ headResp[i][1].kind \in {"http", "error"}

PutOnWire(i) == putResp[i] # None /\ putResp[i][1].kind \in {"http", "error"}

\* asset i fared as `head` and `put`, applied to the answers it got, dictate
FaresAs(i, head(_), put(_)) ==
    /\ HeadOnWire(i) =>
         /\ has_etag[i] = EtagOf(head(headResp[i][1]))
         /\ lines[i] = SkippedLine <=> ChecksumMatch(head(headResp[i][1]), hash_b64[i])
         /\ putCalls[i] = 0 <=> ChecksumMatch(head(headResp[i][1]), hash_b64[i])
    /\ PutOnWire(i) =>
         /\ lines[i] \in UploadedLines <=> put(putResp[i][1]) = "ok_true"
         /\ lines[i] = "upload failed" <=> put(putResp[i][1]) = "ok_false"
         /\ lines[i] = "error" <=> put(putResp[i][1]) = "err"

\* the counters as `head` and `put`, applied to the answers received, dictate
CountsAs(head(_), put(_)) ==
    /\ skipped = Cardinality({i \in Tasks :
            HeadOnWire(i) /\ ChecksumMatch(head(headResp[i][1]), hash_b64[i])})
    /\ uploaded = Cardinality({i \in Tasks :
            PutOnWire(i) /\ put(putResp[i][1]) = "ok_true"})

\* C16: the signed and the presigned client are observably equivalent: for the
\* same key and the same remote answer (status, headers or transport failure)
\* each asset is classified, and the counters move, as the mapping of either
\* client dictates, and the PUT carries the checksum either client computes.
C16_ClientsEquivalent ==
    /\ \A i \in Tasks :
         /\ FaresAs(i, HeadResult, PutResult)
         /\ FaresAs(i, PresignedHeadResult, PresignedPutResult)
         /\ putHdr[i] # None =>
              putHdr[i][1] = PutChecksum(assets[i].content)
              /\ putHdr[i][1] = PresignedPutChecksum(assets[i].content)
    /\ CountsAs(HeadResult, PutResult)
    /\ CountsAs(PresignedHeadResult, PresignedPutResult)

\* a presigned call has returned after one asset was skipped on a matching
\* checksum and one was uploaded
C16_Witness ==
    /\ client = "presigned"
    /\ result # None
    /\ N = 2
    /\ HeadOnWire(1) /\ lines[1] = SkippedLine
    /\ PutOnWire(2) /\ lines[2] = "checksum changed"
    /\ result[1] = [uploaded |-> 1, skipped |-> 1]

\* no other asset of the list has the key of asset i
OwnKey(i) == \A j \in Tasks : assets[j].path = assets[i].path => j = i

\* what a probe of `key` answered by the store returns now
ProbeNow(key) ==
    ClientHeadResult(IF IsSome(remote[key])
                     THEN HttpResponse(200, remote[key][1].checksum, remote[key][1].etag)
                     ELSE HttpResponse(404, None, FALSE))

\* C17: every PUT of either client carries x-amz-checksum-sha256 =
\* base64(SHA-256(body)) of the bytes it sends; so once the PUT of an asset
\* whose hash is the SHA-256 of its content has succeeded, a probe of its key
\* returns a checksum equal to base64(hex_decode(contentHashHex)).
C17_PutCarriesChecksum ==
    \A i \in Tasks :
        /\ putHdr[i] # None =>
             putHdr[i][1] = Base64Encode(Sha256(assets[i].content))
        /\ PutSucceeded(i) /\ OwnKey(i) /\ assets[i].hash_hex = HashOf(assets[i].content)
             => /\ ProbeNow(assets[i].path).ok
                /\ IsSome(ProbeNow(assets[i].path).val)
                /\ ProbeNow(assets[i].path).val[1].checksum
                     = Some(Base64Encode(HexDecodeOrDefault(assets[i].hash_hex)))

\* the presigned client has uploaded an asset over a stale object
C17_Witness ==
    /\ client = "presigned"
    /\ \E i \in Tasks :
         /\ PutSucceeded(i) /\ OwnKey(i)
         /\ assets[i].hash_hex = HashOf(assets[i].content)
         /\ bucket0[assets[i].path] # None
         /\ bucket0[assets[i].path] # remote[assets[i].path]
         /\ putHdr[i] = Some(Base64Encode(Sha256(assets[i].content)))

\* HMAC-SHA256(key, data)
H(key, data) == HmacDigest(key, data)

\* the signature AWS Signature V4 prescribes for the inputs of call c
SigV4(c) ==
    HexEncode(
        H(H(H(H(H(AWS4 \o c.config.secret_access_key, c.date_stamp),
                c.config.region),
              S3Service),
            Aws4Request),
          c.string_to_sign))

\* the inputs the claim lets the signature depend on
SignInputs(c) ==
    <<c.config.secret_access_key, c.config.region, c.date_stamp, c.string_to_sign>>

\* C18: sign is a pure function of (secretKey, region, dateStamp, stringToSign):
\* whenever HMAC yields a value its result is hex(H(H(H(H(H("AWS4" + secretKey,
\* dateStamp), region), "s3"), "aws4_request"), stringToSign)), in that order,
\* and calls with equal inputs return equal signatures whatever the access key
\* id and whatever was signed before.
C18_SignIsPure ==
    /\ \A k \in 1..Len(signLog) :
         /\ signLog[k].out.ok <=> reqFault # "sign"
         /\ signLog[k].out.ok => signLog[k].out.val = SigV4(signLog[k])
    /\ \A j, k \in 1..Len(signLog) :
         SignInputs(signLog[j]) = SignInputs(signLog[k])
             => signLog[j].out = signLog[k].out

\* two calls with equal inputs but different access key ids were signed and
\* returned the same four hex digits
C18_Witness ==
    /\ Len(signLog) = 2
    /\ signLog[1].out.ok
    /\ SignInputs(signLog[1]) = SignInputs(signLog[2])
    /\ signLog[1].config.access_key_id # signLog[2].config.access_key_id
    /\ signLog[1].out = signLog[2].out
    /\ Len(signLog[1].out.val) = 4

\* the sync run after an interruption has returned, every HEAD of it answered
\* by the store
LaterSyncReturned ==
    /\ run = 2
    /\ interrupted
    /\ result # None
    /\ HeadsReportStore

\* every asset the interrupted call had uploaded is skipped without a PUT;
\* PUTs go only to the other assets
UploadedOnesSkipped ==
    /\ \A i \in firstUploaded : lines[i] = SkippedLine /\ putCalls[i] = 0
    /\ \A i \in Tasks : putCalls[i] > 0 => i \notin firstUploaded

\* the objects the interrupted call had uploaded are still stored
UploadedOnesStored ==
    \A i \in firstUploaded :
        /\ remote[assets[i].path] # None
        /\ remote[assets[i].path][1].checksum = Some(PutChecksum(assets[i].content))

\* C19 as stated: if a sync is interrupted after a subset S of the assets was
\* uploaded, a later complete sync over the same unchanged list skips every
\* asset of S and issues PUTs only for assets outside S.
C19_Original ==
    LaterSyncReturned => UploadedOnesSkipped

\* C19 amended: the same, for a list whose paths are pairwise distinct (each
\* hash the digest of its content); the objects of S stay stored throughout.
C19_ResumeAfterInterrupt ==
    /\ run = 2 /\ interrupted /\ DistinctPaths => UploadedOnesStored
    /\ LaterSyncReturned /\ DistinctPaths => UploadedOnesSkipped

\* the first call was interrupted after it had uploaded asset 1 and before
\* asset 2 was stored; the later sync skipped asset 1 and uploaded asset 2
C19_Witness ==
    /\ LaterSyncReturned /\ DistinctPaths
    /\ N = 2
    /\ firstUploaded = {1}
    /\ lines[1] = SkippedLine
    /\ lines[2] \in UploadedLines
    /\ result[1] = [uploaded |-> 1, skipped |-> 1]

\* the HEAD of asset i was answered with what the bucket held
StoreTold(i) ==
    /\ headResp[i] # None
    /\ headResp[i][1].kind = "http"
    /\ headResp[i][1].status \in {200, 404}

\* the store and the transport treated all requests for one key alike
FixedPerKey ==
    \A i, j \in Tasks :
        assets[i].path = assets[j].path =>
            /\ StoreTold(i) <=> StoreTold(j)
            /\ ~StoreTold(i) => headResp[i] = headResp[j]
            /\ putResp[i] # None /\ putResp[j] # None => putResp[i] = putResp[j]

\* the answer the HEAD of asset k gets from `bucket` under the observed behaviour
SeqHeadAnswer(k, bucket) ==
    IF ~StoreTold(k) THEN headResp[k][1]
    ELSE IF bucket[assets[k].path] # None
    THEN HttpResponse(200, bucket[assets[k].path][1].checksum,
                      bucket[assets[k].path][1].etag)
    ELSE HttpResponse(404, None, FALSE)

\* the answer the PUT of asset k gets under the observed behaviour
SeqPutAnswer(k) ==
    IF putResp[k] # None THEN putResp[k][1] ELSE HttpResponse(200, None, TRUE)

\* bucket and counters after the first k assets were synced one after the
\* other, each task run to its end before the next starts
RECURSIVE SeqRun(_)
SeqRun(k) ==
    IF k = 0 THEN [bucket |-> bucket0, uploaded |-> 0, skipped |-> 0]
    ELSE LET prev == SeqRun(k - 1)
             a == assets[k]
             probe == HeadResult(SeqHeadAnswer(k, prev.bucket))
         IN  IF ChecksumMatch(probe, hex_to_base64(a.hash_hex))
             THEN [prev EXCEPT !.skipped = @ + 1]
             ELSE IF PutResult(SeqPutAnswer(k)) = "ok_true"
             THEN [bucket |-> [prev.bucket EXCEPT ![a.path] =
                                  Object(Some(Base64Encode(Sha256(a.content))), TRUE)],
                   uploaded |-> prev.uploaded + 1,
                   skipped |-> prev.skipped]
             ELSE prev

\* the call returned the pair, and left the bucket, of the one-by-one run
SameAsOneByOne ==
    /\ result[1] = [uploaded |-> SeqRun(N).uploaded, skipped |-> SeqRun(N).skipped]
    /\ remote = SeqRun(N).bucket

\* C20 as stated: for any asset list (paths need not be distinct) and a fixed
\* storage behaviour per key, the returned pair and the final content under
\* each key are the same for every order in which the tasks interleave.
C20_Original ==
    result # None /\ FixedPerKey => SameAsOneByOne

\* C20 amended: the same, for a list whose paths are pairwise distinct.
C20_OrderIndependent ==
    result # None /\ FixedPerKey /\ DistinctPaths => SameAsOneByOne

\* a call over two assets under different keys has returned, one asset
\* uploaded over a stale object and one whose PUT was refused
C20_Witness ==
    /\ result # None /\ DistinctPaths
    /\ N = 2
    /\ lines[1] = "checksum changed"
    /\ lines[2] = "upload failed"
    /\ result[1] = [uploaded |-> 1, skipped |-> 0]
    /\ remote # bucket0

\* the last call of a Config method was `op`
Called(op) == cfgCall # None /\ cfgCall[1].op = op

\* the aliases other than `name` are as before the last call
OtherAliasesKept(name) ==
    \A n \in AliasNames \ {name} : cfg.aliases[n] = cfgCall[1].before.aliases[n]

\* C21: set_alias(name, cfg, force) returns AliasExists and leaves aliases and
\* default unchanged when force is false and name is already an alias; in every
\* other case it returns Ok and afterwards get_alias(name) is cfg, every other
\* alias and the default unchanged.
C21_SetAlias ==
    Called("set_alias") =>
        LET c == cfgCall[1] IN
        IF ~c.force /\ c.before.aliases[c.name] # None
        THEN /\ c.ret = ConfigErr("AliasExists", c.name)
             /\ cfg = c.before
        ELSE /\ c.ret = Ok(<<>>)
             /\ get_alias(cfg, c.name) = c.config
             /\ OtherAliasesKept(c.name)
             /\ cfg.default = c.before.default

\* an existing alias was overwritten with another configuration under force
C21_Witness ==
    /\ Called("set_alias")
    /\ cfgCall[1].force
    /\ cfgCall[1].before.aliases[cfgCall[1].name] # None
    /\ cfgCall[1].before.aliases[cfgCall[1].name] # cfgCall[1].config
    /\ cfgCall[1].ret.ok
    /\ cfg.aliases[cfgCall[1].name] = cfgCall[1].config

\* C22: remove_alias(name) returns the removed AliasConfig when name is an
\* alias, afterwards get_alias(name) is None, default is None if it was name
\* and unchanged otherwise, all other aliases unchanged; when name is not an
\* alias it returns AliasNotFound and leaves the whole Config unchanged.
C22_RemoveAlias ==
    Called("remove_alias") =>
        LET c == cfgCall[1] IN
        IF c.before.aliases[c.name] # None
        THEN /\ c.ret = Ok(c.before.aliases[c.name][1])
             /\ get_alias(cfg, c.name) = None
             /\ cfg.default = (IF c.before.default = Some(c.name) THEN None
                               ELSE c.before.default)
             /\ OtherAliasesKept(c.name)
        ELSE /\ c.ret = ConfigErr("AliasNotFound", c.name)
             /\ cfg = c.before

\* the default names nothing or an alias that is present
DefaultIsAlias == cfg.default = None \/ cfg.aliases[cfg.default[1]] # None

\* C26: starting from Config::default(), after any sequence of set_alias,
\* remove_alias and set_default calls, successful or failing, default is None
\* or the name of an alias present in aliases.
C26_DefaultNamesAlias == DefaultIsAlias

\* the alias that was the default has just been removed, after the default
\* had been moved away from "default"
C26_Witness ==
    /\ Called("remove_alias")
    /\ cfgCall[1].ret.ok
    /\ cfgCall[1].before.default = Some(cfgCall[1].name)
    /\ cfgCall[1].name # "default"
    /\ cfg.default = None
    /\ cfg.aliases["default"] # None

\* no call is between its first and its last statement
NoCallRunning == \A c \in DOMAIN calls : calls[c].pc = "idle"

\* no statement of any call failed with a database error
NoDatabaseError == \A c \in DOMAIN calls : ~calls[c].faulted

\* the versions 1..k in order
UpTo(k) == [i \in 1..k |-> i]

\* C23: each successful deploy_worker on an existing worker sets current_version
\* to one more than the version of the previous deployment (1 for the first), so
\* after k successful sequential deploys to a newly created worker
\* current_version == k; a deploy to a worker that does not exist returns
\* NotFound and records no deployment.
C23_VersionsCount ==
    /\ \A c \in DOMAIN calls :
         (calls[c].pc = "idle" /\ calls[c].ret # None) =>
             LET r == calls[c].ret[1]
                 name == calls[c].name
             IN  /\ r.ok => /\ workers[name] # None
                            /\ r.val = calls[c].prev + 1
                            /\ workers[name] = Some(Some(calls[c].prev + 1))
                 /\ (workers[name] = None /\ r.err # "Database") =>
                        r = BackendErr("NotFound")
    /\ \A n \in WorkerNames : workers[n] = None => deployments[n] = <<>>
    /\ (Len(calls) = 1 /\ NoCallRunning /\ NoDatabaseError) =>
           LET k == calls[1].succeeded IN
           /\ deployments["versioned-worker"] = UpTo(k)
           /\ workers["versioned-worker"] =
                  Some(IF k = 0 THEN None ELSE Some(k))

\* three deploys of the database backend succeeded, with a NotFound in between
C23_Witness ==
    /\ backend = "db"
    /\ NoCallRunning
    /\ calls[1].succeeded = 2
    /\ calls[1].started = 3
    /\ ~calls[1].faulted
    /\ calls[1].ret = Some(BackendOk(2))
    /\ workers["versioned-worker"] = Some(Some(2))

\* the versions of the worker's deployment rows are pairwise different
VersionsDistinct(n) ==
    \A i, j \in DOMAIN deployments[n] :
        i # j => deployments[n][i] # deployments[n][j]

\* C29: two DbBackend::deploy_worker calls for the same worker that run
\* concurrently are never assigned the same version number, and after both
\* complete the worker's current_version equals the highest version among its
\* deployment rows.
C29_ConcurrentDeploys ==
    NoDatabaseError =>
        \A n \in WorkerNames :
            /\ VersionsDistinct(n)
            /\ (NoCallRunning /\ deployments[n] # <<>>) =>
                   workers[n] = Some(MaxVersion(deployments[n]))

\* a PUT for asset i is issued in this step
PutIssued(i) == putCalls'[i] > putCalls[i]

\* the next asset is taken from the stream in this step
Admitted == next' > next

\* task i moves forward only: probe, then maybe upload, then done for good
RunsForward(i) ==
    /\ pc[i] = "head" => pc'[i] \in {"head", "put", "done"}
    /\ pc[i] = "put" => pc'[i] \in {"put", "done"}
    /\ pc[i] = "done" => pc'[i] = "done"
    /\ (pc[i] # "done" /\ pc'[i] = "done") => lines'[i] # ""

\* C24: for each asset the probe (HEAD) is issued and completed before any PUT
\* for that asset is issued, each admitted task runs its probe-then-maybe-upload
\* sequence to completion, and the pool admits the next asset only when one of
\* the at most 10 running tasks has finished, never while 10 are running.
C24_ProbeBeforePut ==
    [][ /\ \A i \in Tasks :
             /\ PutIssued(i) => (headCalls'[i] = 1 /\ headResp'[i] # None)
             /\ RunsForward(i)
        /\ Admitted => Running < ConcurrencyLimit ]_vars

\* the last asset of a list longer than the limit has been admitted after a
\* task finished, and a probed task has its PUT under way in the full pool
C24_Witness ==
    /\ N > ConcurrencyLimit
    /\ next = N + 1
    /\ Running = ConcurrencyLimit
    /\ pc[N] = "head"
    /\ \E i \in Tasks : pc[i] = "put" /\ putCalls[i] = 1 /\ headResp[i] # None

\* asset i's hash is not a hex encoding: hex::decode fails on it
Malformed(i) == ~HexDecodeOk(assets[i].hash_hex)

\* C27: an asset whose contentHashHex is not a valid hex encoding (hex_to_base64
\* falls back to the encoding of zero bytes) is never classified as skipped,
\* whatever checksum the remote object reports, an empty one included.
C27_MalformedNeverSkipped ==
    \A i \in Tasks : Malformed(i) => lines[i] # SkippedLine

\* the position of the first `sep` in s, 0 when there is none
Find(s, sep) ==
    IF \E k \in 1..Len(s) : s[k] = sep
    THEN CHOOSE k \in 1..Len(s) : s[k] = sep /\ \A j \in 1..(k - 1) : s[j] # sep
    ELSE 0

RECURSIVE Split(_, _)
\* the pieces of s between the occurrences of `sep`
Split(s, sep) ==
    IF Find(s, sep) = 0 THEN <<s>>
    ELSE <<SubSeq(s, 1, Find(s, sep) - 1)>>
         \o Split(SubSeq(s, Find(s, sep) + 1, Len(s)), sep)

\* a sorts strictly before b, character by character in ASCII order
TextLess(a, b) ==
    LET shorter == IF Len(a) < Len(b) THEN Len(a) ELSE Len(b)
        differ == {k \in 1..shorter : a[k] # b[k]}
    IN  IF differ = {} THEN Len(a) < Len(b)
        ELSE LET k == CHOOSE d \in differ : \A e \in differ : d <= e
             IN  Ord(a[k]) < Ord(b[k])

IsLowerCase(s) == \A k \in 1..Len(s) : \A u \in 1..26 : s[k] # UpperCase[u]

\* the names of the SignedHeaders list of request r
SignedNames(r) == Split(r.signed_headers, ";")

\* the lines of r's canonical header block; the block ends with a newline, so
\* the piece after the last newline is empty
CanonicalLines(r) == Split(r.canonical_headers, "\n")

\* the values sent on r under header `name`
SentValues(r, name) ==
    {r.headers[k].value : k \in {j \in DOMAIN r.headers : r.headers[j].name = name}}

\* C25: in every request signed by the Signed Client (HEAD and PUT) the
\* SignedHeaders list consists of lower-case header names in strictly increasing
\* lexicographic order joined by ';', the canonical header block has exactly one
\* 'name:value\n' line per signed name in the same order, and the values of
\* those headers sent on the request equal the values that were signed.
C25_SignedHeadersCanonical ==
    \A q \in DOMAIN reqLog :
        LET r == reqLog[q]
            names == SignedNames(r)
            block == CanonicalLines(r)
        IN  /\ \A k \in DOMAIN names : names[k] # <<>> /\ IsLowerCase(names[k])
            /\ \A k \in 1..(Len(names) - 1) : TextLess(names[k], names[k + 1])
            /\ Len(block) = Len(names) + 1
            /\ block[Len(block)] = <<>>
            /\ \A k \in DOMAIN names :
                 /\ Find(block[k], ":") = Len(names[k]) + 1
                 /\ SubSeq(block[k], 1, Len(names[k])) = names[k]
                 /\ SentValues(r, names[k]) =
                        {SubSeq(block[k], Len(names[k]) + 2, Len(block[k]))}

\* a HEAD and a PUT have been built, the PUT signing five headers
C25_Witness ==
    /\ Len(reqLog) = 2
    /\ reqLog[1].method = "HEAD"
    /\ reqLog[2].method = "PUT"
    /\ Len(SignedNames(reqLog[1])) = 3
    /\ Len(SignedNames(reqLog[2])) = 5
    /\ Len(reqLog[2].headers) = 5

\* what the upload command's sequential loop returns and leaves behind
Sequential == upload_assets_presigned(entries, assets, bucket0)

\* C28: the sequential presigned upload of the upload command and upload_assets
\* run over a PresignedClient built from the same URL entries return the same
\* (uploaded, skipped) pair and leave the same remote state, for every list of
\* local assets and every list of presigned entries, including a local asset
\* without entry, an entry without local asset, and a path in two entries.
C28_SequentialEqualsConcurrent ==
    result # None =>
        /\ result[1] = [uploaded |-> Sequential.uploaded,
                        skipped |-> Sequential.skipped]
        /\ remote = Sequential.bucket

\* an asset is left in the stream although the pool has room for it
Starved == next <= N /\ Running < ConcurrencyLimit

====
